---- MODULE Spec2Model ----
(***************************************************************************)
(* A model of torch-core/core: the Asset / Allocation / RatePayload /      *)
(* SignedRate value types, the nested-cell codec that stores lists of      *)
(* coins and of assets in cells of at most 1023 bits and 4 references,     *)
(* and the asynchronous construction of a chain of signed rates.           *)
(*                                                                         *)
(* Representation of the values of the program:                            *)
(*  - a bigint is a record [neg, mag]: a sign and the big-endian bytes of  *)
(*    the magnitude without leading zero bytes (0n is [neg |-> FALSE,      *)
(*    mag |-> <<>>]), so that values up to and beyond 2^120 are values of  *)
(*    the model;                                                           *)
(*  - a JavaScript integer number is a pair of limbs <<hi, lo>> that       *)
(*    stands for hi * 65536 + lo with lo in 0..65535 (hi is negative for   *)
(*    a negative number), so that the whole signed and unsigned 32-bit     *)
(*    ranges are values of the model;                                      *)
(*  - a cell is a record [bits, refs]: bits is the sequence of the fields  *)
(*    written to it, each [kind, w |-> width in bits, v |-> content],      *)
(*    refs the sequence of the referenced cells;                           *)
(*  - a call that can throw returns [ok |-> TRUE, val |-> v] or            *)
(*    [ok |-> FALSE, err |-> message].                                     *)
(***************************************************************************)
EXTENDS Integers, Sequences, FiniteSets, TLC

VARIABLES
  phase,          \* position of the scenario that is running
  coins,          \* SpecCoins: the bigint[] given to storeCoinsNested
  coinCell,       \* SpecCoins: what storeCoinsNested returned or threw
  parsedCoins,    \* SpecCoins: what parseCoinsFromNestedCell returned or threw
  assets,         \* SpecAssets: a list of assets, in any order
  cmp,            \* SpecAssets, SpecRate: a call of compare and of equals
  sortedAssets,   \* SpecAssets: what assets.sort((a, b) => a.compare(b)) gave
  assetCell,      \* SpecAssets: what storeSortedAssetsNested returned or threw
  parsedAssets,   \* SpecAssets: what parseAssetsFromNestedCell returned or threw
  rateExpiration, \* SpecRate: the expiration given to new RatePayload
  rateList,       \* SpecRate: the Allocation[] given to new RatePayload
  ratePayload,    \* SpecRate: what new RatePayload returned or threw
  rateCell,       \* SpecRate: what toCell() of the payload returned or threw,
                  \*   or a cell made elsewhere
  rateDecoded,    \* SpecRate: what fromCell / fromJSON returned or threw
  ratePermuted,   \* SpecRate: the payload, cell and signature of the same
                  \*   rates given in another order
  pc,             \* Spec: where each SignedRate.fromRates call is
  chainRates,     \* Spec: the rates array of each call
  chainKey,       \* Spec: the secretKey of each call
  loopIndex,      \* Spec: i of the loop of each call, counted from 1
  prevSignedRate, \* Spec: prevSignedRate of each call
  pending,        \* Spec: what the awaited payload.sign(secretKey) settles to
  signCalls,      \* Spec: the calls of the signer each call made, in order
  chainResult,    \* Spec: what the promise of each call settled to
  chainCell,      \* Spec: what toCell() of the returned chain returned or threw
  chainDecoded,   \* Spec: what SignedRate.fromCell of that cell returned or threw
  oneAsset,       \* SpecValue: an asset
  oneAmount,      \* SpecValue: a value given to new Allocation, in one of its forms
  oneCell,        \* SpecValue: what toCell() of the asset returned or threw
  oneFromCell,    \* SpecValue: what Asset.fromCell of that cell returned or threw
  oneID,          \* SpecValue: the ID of the asset, or a text from elsewhere
  oneFromID,      \* SpecValue: what Asset.fromID of that text returned or threw
  oneAllocation,  \* SpecValue: what new Allocation({ asset, value }) returned or threw
  normAlloc,      \* SpecNormalize: the alloc argument, one allocation or an array
  normTarget,     \* SpecNormalize: the target argument
  normalized,     \* SpecNormalize: what normalize(alloc, target) returned or threw
  wire,           \* SpecDecode: what the cell received was built of, and for which decoder
  wireCell,       \* SpecDecode: a cell received from elsewhere
  wireDecoded,    \* SpecDecode: what the decoder returned or threw
  jsonSubject,    \* SpecJSON: what the value converted is made of
  jsonValue,      \* SpecJSON: the value its constructors returned, or what they threw
  jsonText,       \* SpecJSON: toJSON() of the value
  jsonBack,       \* SpecJSON: what fromJSON of that returned or threw
  made,           \* SpecBuild: what the value encoded is made of
  madeValue,      \* SpecBuild: the value its constructors returned, or what they threw
  madeCell,       \* SpecBuild: what the encoder returned or threw
  walk,           \* SpecWalk: what the function is called on
  walkCell,       \* SpecWalk: the root cell of the chain
  walkSlice,      \* SpecWalk: the slice being read, or the builders of the calls not returned
  walkItems,      \* SpecWalk: the items read so far, or the items still to store
  walkI,          \* SpecWalk: the index i of the parser's for loop
  walkIterations, \* SpecWalk: the number of iterations of the while loop begun
  walkMoves,      \* SpecWalk: the references followed, or the recursive calls made
  walkPc,         \* SpecWalk: where the function is: while, for, next, node, store,
                  \* layer, return, done, failed
  walkResult      \* SpecWalk: what the function returned or threw

coinVars == <<coins, coinCell, parsedCoins>>

assetVars == <<assets, cmp, sortedAssets, assetCell, parsedAssets>>

rateVars == <<rateExpiration, rateList, ratePayload, rateCell, rateDecoded, ratePermuted>>

chainVars ==
  <<pc, chainRates, chainKey, loopIndex, prevSignedRate, pending, signCalls, chainResult,
    chainCell, chainDecoded>>

valueVars ==
  <<oneAsset, oneAmount, oneCell, oneFromCell, oneID, oneFromID, oneAllocation>>

normVars == <<normAlloc, normTarget, normalized>>

decodeVars == <<wire, wireCell, wireDecoded>>

jsonVars == <<jsonSubject, jsonValue, jsonText, jsonBack>>

buildVars == <<made, madeValue, madeCell>>

walkVars ==
  <<walk, walkCell, walkSlice, walkItems, walkI, walkIterations, walkMoves, walkPc,
    walkResult>>

moreVars == <<valueVars, normVars, decodeVars, jsonVars, buildVars, walkVars>>

vars == <<phase, coinVars, assetVars, rateVars, chainVars, moreVars>>

(***************************************************************************)
(* Results of calls that can throw.                                        *)
(***************************************************************************)
Ok(v) == [ok |-> TRUE, val |-> v]

Err(e) == [ok |-> FALSE, err |-> e]

\* The value of a variable that holds no result yet.
NoResult == [ok |-> FALSE, err |-> "not run"]

Min(a, b) == IF a <= b THEN a ELSE b

\* F of the value of v: the value is computed once and F works on it, as
\* code does with a local constant.
Bind(v, F(_)) == CHOOSE r \in {F(x) : x \in {v}} : TRUE

(***************************************************************************)
(* bigint                                                                  *)
(***************************************************************************)
Nat2Bytes(n) ==
  LET RECURSIVE digits(_)
      digits(k) == IF k = 0 THEN <<>> ELSE Append(digits(k \div 256), k % 256)
  IN digits(n)

\* BigInt(n) for a non-negative integer n of the model.
BigInt(n) == [neg |-> FALSE, mag |-> Nat2Bytes(n)]

\* The bytes of a magnitude without its leading zero bytes.
RECURSIVE StripZeros(_)
StripZeros(bs) ==
  IF bs # <<>> /\ Head(bs) = 0 THEN StripZeros(Tail(bs)) ELSE bs

\* k bytes of value b.
RepeatByte(b, k) == [i \in 1..k |-> b]

(***************************************************************************)
(* Cells, builders and slices (@ton/core as used by the repository).       *)
(* A builder carries the error of the first store that threw; the stores   *)
(* after it do nothing, as the exception has left the function.            *)
(***************************************************************************)
CELL_MAX_BITS == 1023

CELL_MAX_REFS == 4

\* A field of w bits; kind names the form of the content v: "n" a small
\* unsigned number, "bits32" the two limbs of a 32-bit pattern, "bytes" a byte
\* string, "addr" an address, "sig" a signature buffer.
Field(kind, w, v) == [kind |-> kind, w |-> w, v |-> v]

RECURSIVE BitLen(_)
BitLen(fields) ==
  IF fields = <<>> THEN 0 ELSE Head(fields).w + BitLen(Tail(fields))

beginCell == [bits |-> <<>>, refs |-> <<>>, err |-> ""]

\* Builder.writeUint and the like: w bits of content v.
storeBits(b, kind, w, v) ==
  IF b.err # "" THEN b
  ELSE IF BitLen(b.bits) + w > CELL_MAX_BITS
       THEN [b EXCEPT !.err = "BitBuilder overflow"]
       ELSE [b EXCEPT !.bits = Append(@, Field(kind, w, v))]

\* Builder.storeRef(c), c the result of the call that built the cell.
storeRef(b, c) ==
  IF b.err # "" THEN b
  ELSE IF ~c.ok THEN [b EXCEPT !.err = c.err]
  ELSE IF Len(b.refs) >= CELL_MAX_REFS
       THEN [b EXCEPT !.err = "Too many references"]
       ELSE [b EXCEPT !.refs = Append(@, c.val)]

\* Builder.storeCoins(v): VarUInteger 16, a 4-bit byte count and the bytes.
storeCoins(b, v) ==
  IF b.err # "" THEN b
  ELSE IF v.neg THEN [b EXCEPT !.err = "value is negative"]
  ELSE IF Len(v.mag) > 15 THEN [b EXCEPT !.err = "value is out of range for 4 bits"]
  ELSE IF Len(v.mag) = 0 THEN storeBits(b, "n", 4, 0)
  ELSE storeBits(storeBits(b, "n", 4, Len(v.mag)), "bytes", 8 * Len(v.mag), v.mag)

endCell(b) ==
  IF b.err # "" THEN Err(b.err) ELSE Ok([bits |-> b.bits, refs |-> b.refs])

\* Cell.beginParse(): the slice starts with all the bits and references.
beginParse(c) == [bits |-> c.bits, refs |-> c.refs]

remainingBits(s) == BitLen(s.bits)

remainingRefs(s) == Len(s.refs)

\* Slice.loadCoins(): [ok, val, rest], rest the slice after the read.
loadCoins(s) ==
  IF s.bits = <<>> \/ Head(s.bits).w # 4 \/ Head(s.bits).kind # "n"
  THEN [ok |-> FALSE, err |-> "Index out of bounds", rest |-> s]
  ELSE LET n == Head(s.bits).v
           after == [s EXCEPT !.bits = Tail(@)]
       IN IF n = 0
          THEN [ok |-> TRUE, val |-> [neg |-> FALSE, mag |-> <<>>], rest |-> after]
          ELSE IF after.bits = <<>> \/ Head(after.bits).w # 8 * n
                  \/ Head(after.bits).kind # "bytes"
               THEN [ok |-> FALSE, err |-> "Index out of bounds", rest |-> after]
               ELSE [ok |-> TRUE,
                     val |-> [neg |-> FALSE, mag |-> StripZeros(Head(after.bits).v)],
                     rest |-> [after EXCEPT !.bits = Tail(@)]]

(***************************************************************************)
(* utils: the nested coin cell.                                            *)
(***************************************************************************)
MAX_COINS_PER_CELL == 7

RECURSIVE storeCoinsLayer(_, _)
storeCoinsLayer(b, layer) ==
  IF layer = <<>> THEN b
  ELSE storeCoinsLayer(storeCoins(b, Head(layer)), Tail(layer))

\* An encoder that puts all the amounts in one cell.
storeCoinsFlat(cs) == endCell(storeCoinsLayer(beginCell, cs))

RECURSIVE storeCoinsNested(_)
storeCoinsNested(cs) ==
  LET currentLayer == SubSeq(cs, 1, Min(Len(cs), MAX_COINS_PER_CELL))
      remaining == SubSeq(cs, MAX_COINS_PER_CELL + 1, Len(cs))
      builder == storeCoinsLayer(beginCell, currentLayer)
  IN IF Len(remaining) > 0
     THEN IF builder.err # "" THEN endCell(builder)
          ELSE endCell(storeRef(builder, storeCoinsNested(remaining)))
     ELSE endCell(builder)

\* The for loop of parseCoinsFromNestedCell: [ok, val, rest].
RECURSIVE parseCoinsLayer(_, _, _)
parseCoinsLayer(s, acc, i) ==
  IF i < MAX_COINS_PER_CELL /\ remainingBits(s) > 0
  THEN LET r == loadCoins(s)
       IN IF r.ok THEN parseCoinsLayer(r.rest, Append(acc, r.val), i + 1)
          ELSE [ok |-> FALSE, err |-> r.err, rest |-> r.rest]
  ELSE [ok |-> TRUE, val |-> acc, rest |-> s]

\* The while loop of parseCoinsFromNestedCell.
RECURSIVE parseCoinsLoop(_, _)
parseCoinsLoop(currentCell, acc) ==
  IF remainingBits(currentCell) > 0
  THEN LET r == parseCoinsLayer(currentCell, acc, 0)
       IN IF ~r.ok THEN Err(r.err)
          ELSE IF remainingRefs(r.rest) > 0
               THEN parseCoinsLoop(beginParse(Head(r.rest.refs)), r.val)
               ELSE parseCoinsLoop(r.rest, r.val)
  ELSE Ok(acc)

\* A parser that reads the root cell and follows no reference.
parseCoinsRootOnly(cell) ==
  LET r == parseCoinsLayer(beginParse(cell), <<>>, 0)
  IN IF r.ok THEN Ok(r.val) ELSE Err(r.err)

parseCoinsFromNestedCell(cell) == parseCoinsLoop(beginParse(cell), <<>>)

(***************************************************************************)
(* JavaScript integer numbers as limbs <<hi, lo>>.                         *)
(***************************************************************************)
LIMB == 65536

\* The number of the model's integer n.
Num(n) == <<n \div LIMB, n % LIMB>>

NumIsPositive(x) == x[1] > 0 \/ (x[1] = 0 /\ x[2] > 0)

\* -2^31 <= x < 2^31 and 0 <= x < 2^32.
FitsInt32(x) == x[1] >= -(LIMB \div 2) /\ x[1] < LIMB \div 2

FitsUint32(x) == x[1] >= 0 /\ x[1] < LIMB

\* Builder.storeUint(x, 32): throws when x does not fit 32 unsigned bits.
storeUint32(b, x) ==
  IF b.err # "" THEN b
  ELSE IF ~FitsUint32(x) THEN [b EXCEPT !.err = "value is out of range for 32 bits"]
  ELSE storeBits(b, "bits32", 32, x)

\* Builder.storeInt(x, 32): the two's complement pattern of x.
storeInt32(b, x) ==
  IF b.err # "" THEN b
  ELSE IF ~FitsInt32(x) THEN [b EXCEPT !.err = "value is out of range for 32 bits"]
  ELSE storeBits(b, "bits32", 32, <<x[1] % LIMB, x[2]>>)

\* Slice.loadUint(32): the pattern read as an unsigned number.
loadUint32(s) ==
  IF s.bits = <<>> \/ Head(s.bits).w # 32 \/ Head(s.bits).kind # "bits32"
  THEN [ok |-> FALSE, err |-> "Index out of bounds", rest |-> s]
  ELSE [ok |-> TRUE, val |-> Head(s.bits).v, rest |-> [s EXCEPT !.bits = Tail(@)]]

\* Slice.loadUint(4).
loadUint4(s) ==
  IF s.bits = <<>> \/ Head(s.bits).w # 4 \/ Head(s.bits).kind # "n"
  THEN [ok |-> FALSE, err |-> "Index out of bounds", rest |-> s]
  ELSE [ok |-> TRUE, val |-> Head(s.bits).v, rest |-> [s EXCEPT !.bits = Tail(@)]]

\* Slice.loadRef(): [ok, val, rest].
loadRef(s) ==
  IF s.refs = <<>>
  THEN [ok |-> FALSE, err |-> "No more references", rest |-> s]
  ELSE [ok |-> TRUE, val |-> Head(s.refs), rest |-> [s EXCEPT !.refs = Tail(@)]]

(***************************************************************************)
(* Addresses. An address is [workChain, hash]; storeAddress writes the     *)
(* 267 bits of addr_std. The addresses of the model are the two jetton     *)
(* masters of the repository's tests, a third jetton master and the        *)
(* elector of the masterchain.                                             *)
(***************************************************************************)
ADDRESS_BITS == 267

tston ==
  [workChain |-> 0,
   hash |-> "bdf3fa8098d129b54b4f73b5bac5d1e1fd91eb054169c3916dfc8ccd536d1000"]

stton ==
  [workChain |-> 0,
   hash |-> "cd872fa7c5816052acdf5332260443faec9aacc8c21cca4d92e7f47034d11892"]

usdt ==
  [workChain |-> 0,
   hash |-> "b113a994b5024a16719f69139328eb759596c38a25f59028b146fecdc3621dfe"]

elector ==
  [workChain |-> -1,
   hash |-> "3333333333333333333333333333333333333333333333333333333333333333"]

Addresses == {stton, tston, usdt, elector}

storeAddress(b, a) == storeBits(b, "addr", ADDRESS_BITS, a)

loadAddress(s) ==
  IF s.bits = <<>> \/ Head(s.bits).kind # "addr"
  THEN [ok |-> FALSE, err |-> "Invalid address", rest |-> s]
  ELSE [ok |-> TRUE, val |-> Head(s.bits).v, rest |-> [s EXCEPT !.bits = Tail(@)]]

\* BigInt('0x' + beginCell().storeAddress(a).endCell().hash().toString('hex')):
\* the SHA-256 representation hash of the cell that holds only the address,
\* of which the model keeps the leading 24 bits (3a55b7.., 668a4f.., 809792..,
\* e678f0..), enough to order the four addresses as the full hashes do.
AddressCellHash(a) ==
  CASE a = usdt -> 3823031
    [] a = stton -> 6720079
    [] a = elector -> 8427410
    [] a = tston -> 15104240

\* Number(d) of a bigint d: exact below 2^53, which every integer of the
\* model is.
Number(d) == d

(***************************************************************************)
(* Asset                                                                   *)
(***************************************************************************)
TON == 0

JETTON == 1

EXTRA_CURRENCY == 2

\* Asset.ton(), Asset.jetton(jettonMaster), Asset.extraCurrency(currencyId)
AssetTon == [type |-> TON]

AssetJetton(jettonMaster) == [type |-> JETTON, jettonMaster |-> jettonMaster]

AssetExtraCurrency(currencyId) == [type |-> EXTRA_CURRENCY, currencyId |-> currencyId]

\* Asset.toCell()
AssetToCell(this) ==
  CASE this.type = TON -> endCell(storeBits(beginCell, "n", 4, this.type))
    [] this.type = JETTON ->
         endCell(storeAddress(storeBits(beginCell, "n", 4, this.type), this.jettonMaster))
    [] this.type = EXTRA_CURRENCY ->
         endCell(storeInt32(storeBits(beginCell, "n", 4, this.type), this.currencyId))

\* Asset.fromCell whose default branch returns the native asset.
AssetFromCellDefaultTon(c) ==
  LET prefix == loadUint4(beginParse(c))
  IN IF ~prefix.ok THEN Err(prefix.err)
     ELSE IF prefix.val = JETTON
          THEN LET jettonMaster == loadAddress(prefix.rest)
               IN IF jettonMaster.ok THEN Ok(AssetJetton(jettonMaster.val))
                  ELSE Err(jettonMaster.err)
     ELSE IF prefix.val = EXTRA_CURRENCY
          THEN LET currencyId == loadUint32(prefix.rest)
               IN IF currencyId.ok THEN Ok(AssetExtraCurrency(currencyId.val))
                  ELSE Err(currencyId.err)
     ELSE Ok(AssetTon)

\* Asset.fromCell(c)
AssetFromCell(c) ==
  LET prefix == loadUint4(beginParse(c))
  IN IF ~prefix.ok THEN Err(prefix.err)
     ELSE CASE prefix.val = TON -> Ok(AssetTon)
            [] prefix.val = JETTON ->
                 LET jettonMaster == loadAddress(prefix.rest)
                 IN IF jettonMaster.ok THEN Ok(AssetJetton(jettonMaster.val))
                    ELSE Err(jettonMaster.err)
            [] prefix.val = EXTRA_CURRENCY ->
                 LET currencyId == loadUint32(prefix.rest)
                 IN IF currencyId.ok THEN Ok(AssetExtraCurrency(currencyId.val))
                    ELSE Err(currencyId.err)
            [] OTHER -> Err("Invalid asset prefix")

\* A comparator that subtracts the hashes the other way round.
AssetCompareSwapped(this, other) ==
  IF other.type # this.type THEN Ok(this.type - other.type)
  ELSE IF this.type = JETTON
       THEN Ok(AddressCellHash(other.jettonMaster) - AddressCellHash(this.jettonMaster))
       ELSE IF this.type = EXTRA_CURRENCY
            THEN Err("Extra currency asset is not supported yet")
            ELSE Ok(0)

\* A comparator that takes two extra currencies as equal.
AssetCompareNoThrow(this, other) ==
  IF other.type # this.type THEN Ok(this.type - other.type)
  ELSE IF this.type = JETTON
       THEN Ok(AddressCellHash(this.jettonMaster) - AddressCellHash(other.jettonMaster))
       ELSE Ok(0)

\* Asset.compare(other): the number returned, or the error thrown.
AssetCompare(this, other) ==
  IF other.type # this.type THEN Ok(this.type - other.type)
  ELSE IF this.type = JETTON
       THEN Ok(Number(AddressCellHash(this.jettonMaster)
                      - AddressCellHash(other.jettonMaster)))
       ELSE IF this.type = EXTRA_CURRENCY
            THEN Err("Extra currency asset is not supported yet")
            ELSE Ok(0)

\* Asset.equals(other)
AssetEquals(this, other) ==
  LET c == AssetCompare(this, other)
  IN IF c.ok THEN Ok(c.val = 0) ELSE Err(c.err)

(***************************************************************************)
(* Array.prototype.sort((a, b) => a.compare(b)) on the assets keys[i]:     *)
(* a stable insertion sort that returns the order of the indices, or the   *)
(* error the comparator threw.                                             *)
(***************************************************************************)
\* Where index x goes in the sorted indices s, scanning down from j.
RECURSIVE insertPosition(_, _, _, _)
insertPosition(keys, s, x, j) ==
  IF j = 0 THEN Ok(0)
  ELSE LET order == AssetCompare(keys[x], keys[s[j]])
       IN IF ~order.ok THEN Err(order.err)
          ELSE IF order.val < 0 THEN insertPosition(keys, s, x, j - 1)
          ELSE Ok(j)

RECURSIVE sortFrom(_, _, _)
sortFrom(keys, s, x) ==
  IF x > Len(keys) THEN Ok(s)
  ELSE LET at == insertPosition(keys, s, x, Len(s))
       IN IF ~at.ok THEN Err(at.err)
          ELSE sortFrom(keys,
                        SubSeq(s, 1, at.val) \o <<x>> \o SubSeq(s, at.val + 1, Len(s)),
                        x + 1)

sortOrder(keys) == sortFrom(keys, <<>>, 1)

\* assets.sort((a, b) => a.compare(b))
sortAssets(list) ==
  LET order == sortOrder(list)
  IN IF order.ok THEN Ok([i \in 1..Len(list) |-> list[order.val[i]]])
     ELSE Err(order.err)

(***************************************************************************)
(* utils: the nested asset cell.                                           *)
(***************************************************************************)
MAX_ASSETS_PER_CELL == 3

RECURSIVE storeAssetsLayer(_, _)
storeAssetsLayer(b, layer) ==
  IF layer = <<>> THEN b
  ELSE storeAssetsLayer(storeRef(b, AssetToCell(Head(layer))), Tail(layer))

\* An encoder that puts the references of all the assets in one cell.
storeSortedAssetsFlat(as) == endCell(storeAssetsLayer(beginCell, as))

RECURSIVE storeSortedAssetsNested(_)
storeSortedAssetsNested(as) ==
  LET currentAssets == SubSeq(as, 1, Min(Len(as), MAX_ASSETS_PER_CELL))
      remainingAssets == SubSeq(as, MAX_ASSETS_PER_CELL + 1, Len(as))
      builder == storeAssetsLayer(beginCell, currentAssets)
  IN IF Len(remainingAssets) > 0
     THEN IF builder.err # "" THEN endCell(builder)
          ELSE endCell(storeRef(builder, storeSortedAssetsNested(remainingAssets)))
     ELSE endCell(builder)

\* The for loop of parseAssetsFromNestedCell: [ok, val, rest].
RECURSIVE parseAssetsLayer(_, _, _)
parseAssetsLayer(sc, items, i) ==
  IF i < MAX_ASSETS_PER_CELL /\ remainingRefs(sc) > 0
  THEN LET a == AssetFromCell(loadRef(sc).val)
       IN IF a.ok THEN parseAssetsLayer(loadRef(sc).rest, Append(items, a.val), i + 1)
          ELSE [ok |-> FALSE, err |-> a.err, rest |-> sc]
  ELSE [ok |-> TRUE, val |-> items, rest |-> sc]

\* The while loop of parseAssetsFromNestedCell.
RECURSIVE parseAssetsLoop(_, _)
parseAssetsLoop(sc, items) ==
  IF remainingRefs(sc) > 0
  THEN LET r == parseAssetsLayer(sc, items, 0)
       IN IF ~r.ok THEN Err(r.err)
          ELSE IF remainingRefs(r.rest) = 0 THEN Ok(r.val)
          ELSE parseAssetsLoop(beginParse(loadRef(r.rest).val), r.val)
  ELSE Ok(items)

parseAssetsFromNestedCell(c) == parseAssetsLoop(beginParse(c), <<>>)

(***************************************************************************)
(* Decimal text of a bigint (bigint.toString() and BigInt(str)): the       *)
(* digits, most significant first, with a leading "-" for a negative.      *)
(***************************************************************************)
\* <<quotient bytes, remainder>> of the magnitude bs divided by d.
RECURSIVE DivBytes(_, _, _, _)
DivBytes(bs, d, carry, acc) ==
  IF bs = <<>> THEN <<StripZeros(acc), carry>>
  ELSE LET cur == carry * 256 + Head(bs)
       IN DivBytes(Tail(bs), d, cur % d, Append(acc, cur \div d))

\* The bytes of bs * m + c, for a magnitude bs read from its last byte.
RECURSIVE MulAddBytes(_, _, _)
MulAddBytes(bs, m, c) ==
  IF bs = <<>> THEN Nat2Bytes(c)
  ELSE LET cur == bs[Len(bs)] * m + c
       IN Append(MulAddBytes(SubSeq(bs, 1, Len(bs) - 1), m, cur \div 256), cur % 256)

RECURSIVE DecimalDigits(_)
DecimalDigits(mag) ==
  IF mag = <<>> THEN <<>>
  ELSE LET qr == DivBytes(mag, 10, 0, <<>>)
       IN Append(DecimalDigits(qr[1]), qr[2])

\* value.toString()
BigIntToString(v) ==
  [neg |-> v.neg, digits |-> IF v.mag = <<>> THEN <<0>> ELSE DecimalDigits(v.mag)]

\* The number that at most four decimal digits write.
RECURSIVE SmallDecimal(_)
SmallDecimal(ds) ==
  IF ds = <<>> THEN 0 ELSE SmallDecimal(SubSeq(ds, 1, Len(ds) - 1)) * 10 + ds[Len(ds)]

\* The magnitude that the decimal digits ds write, read four digits at a time.
RECURSIVE DigitsToBytes(_)
DigitsToBytes(ds) ==
  IF Len(ds) <= 4 THEN Nat2Bytes(SmallDecimal(ds))
  ELSE StripZeros(MulAddBytes(DigitsToBytes(SubSeq(ds, 1, Len(ds) - 4)), 10000,
                              SmallDecimal(SubSeq(ds, Len(ds) - 3, Len(ds)))))

\* BigInt(str) of a decimal text.
BigIntFromString(str) ==
  LET mag == DigitsToBytes(str.digits)
  IN [neg |-> str.neg /\ mag # <<>>, mag |-> mag]

(***************************************************************************)
(* Text. A string is the sequence of its characters; the workchain and the *)
(* 64 hex digits of the hash of a raw address are one element each.        *)
(***************************************************************************)
DigitChars == <<"0", "1", "2", "3", "4", "5", "6", "7", "8", "9">>

DigitChar(d) == DigitChars[d + 1]

IsDigitChar(ch) == \E d \in 1..10 : DigitChars[d] = ch

CharDigit(ch) == (CHOOSE d \in 1..10 : DigitChars[d] = ch) - 1

\* The bigint of the same value as an integer number.
NumToBigInt(x) ==
  LET m == IF x[1] >= 0 THEN x
           ELSE IF x[2] = 0 THEN <<-x[1], 0>> ELSE <<-x[1] - 1, LIMB - x[2]>>
  IN [neg |-> x[1] < 0,
      mag |-> StripZeros(Nat2Bytes(m[1]) \o <<m[2] \div 256, m[2] % 256>>)]

\* The value of the bytes bs, for a value the model's integers hold.
RECURSIVE BytesValue(_)
BytesValue(bs) ==
  IF bs = <<>> THEN 0 ELSE BytesValue(SubSeq(bs, 1, Len(bs) - 1)) * 256 + bs[Len(bs)]

\* The integer number of the same value as a bigint below 2^47.
BigIntToNum(v) ==
  LET n == Len(v.mag)
      hi == BytesValue(SubSeq(v.mag, 1, n - 2))
      lo == BytesValue(SubSeq(v.mag, IF n > 2 THEN n - 1 ELSE 1, n))
  IN IF ~v.neg THEN <<hi, lo>>
     ELSE IF lo = 0 THEN <<-hi, 0>> ELSE <<-hi - 1, LIMB - lo>>

\* `${x}` of an integer number x: its decimal text.
NumberText(x) ==
  LET str == BigIntToString(NumToBigInt(x))
  IN (IF str.neg THEN <<"-">> ELSE <<>>)
       \o [i \in 1..Len(str.digits) |-> DigitChar(str.digits[i])]

\* The text is a decimal numeral: digits after an optional minus sign.
IsNumeral(text) ==
  LET ds == IF text # <<>> /\ Head(text) = "-" THEN Tail(text) ELSE text
  IN ds # <<>> /\ \A i \in 1..Len(ds) : IsDigitChar(ds[i])

\* Number(text): 0 of the empty text, the value of a decimal numeral, and
\* NaN of the other texts of the model.
ToNumber(text) ==
  IF text = <<>> THEN [nan |-> FALSE, num |-> Num(0)]
  ELSE IF ~IsNumeral(text) THEN [nan |-> TRUE, num |-> Num(0)]
  ELSE LET neg == Head(text) = "-"
           ds == IF neg THEN Tail(text) ELSE text
       IN [nan |-> FALSE,
           num |-> BigIntToNum(BigIntFromString(
                     [neg |-> neg, digits |-> [i \in 1..Len(ds) |-> CharDigit(ds[i])]]))]

\* text.split(sep): the texts between the separators.
RECURSIVE Split(_, _, _)
Split(text, sep, cur) ==
  IF text = <<>> THEN <<cur>>
  ELSE IF Head(text) = sep THEN <<cur>> \o Split(Tail(text), sep, <<>>)
  ELSE Split(Tail(text), sep, Append(cur, Head(text)))

\* parts.join(sep)
RECURSIVE Join(_, _)
Join(parts, sep) ==
  IF parts = <<>> THEN <<>>
  ELSE IF Len(parts) = 1 THEN parts[1]
  ELSE parts[1] \o <<sep>> \o Join(Tail(parts), sep)

\* Address.toRawString() and Address.parse of it: the text "workChain:hash"
\* as its two parts.
toRawString(a) == <<IF a.workChain = -1 THEN "-1" ELSE "0", a.hash>>

AddressParse(str) == [workChain |-> IF str[1] = "-1" THEN -1 ELSE 0, hash |-> str[2]]

\* Address.toRawString() as a text, and Address.parse of a text: it throws
\* on a text that is not "workchain:hash".
RawAddressText(a) == <<toRawString(a)[1], ":", toRawString(a)[2]>>

AddressParseText(text) ==
  IF /\ Len(text) = 3
     /\ text[2] = ":"
     /\ \E a \in Addresses : RawAddressText(a) = text
  THEN Ok(AddressParse(<<text[1], text[3]>>))
  ELSE Err("Unknown address type")

\* Asset.extraCurrency(x) of what Number(text) gave: the schema's z.number()
\* takes no NaN.
AssetExtraCurrencyOf(n) ==
  IF n.nan THEN Err("ZodError: Expected number, received nan")
  ELSE Ok(AssetExtraCurrency(n.num))

\* get Asset.ID
AssetID(this) ==
  CASE this.type = TON -> NumberText(Num(TON))
    [] this.type = JETTON ->
         NumberText(Num(JETTON)) \o <<":">> \o RawAddressText(this.jettonMaster)
    [] this.type = EXTRA_CURRENCY ->
         NumberText(Num(EXTRA_CURRENCY)) \o <<":">> \o NumberText(this.currencyId)

\* Asset.fromID taking the text between the first and the second ':' as the
\* value, in place of everything after the first ':'.
AssetFromIDSecondPart(id) ==
  LET parts == Split(id, ":", <<>>)
      type == Head(parts)
      value == IF Len(parts) >= 2 THEN parts[2] ELSE <<>>
      typeNumber == ToNumber(type)
  IN IF type = <<>> THEN Err("Invalid asset type")
     ELSE IF typeNumber.nan THEN Err("Invalid asset type: ")
     ELSE IF typeNumber.num = Num(TON) THEN Ok(AssetTon)
     ELSE IF typeNumber.num = Num(JETTON)
          THEN IF value = <<>> THEN Err("Invalid asset value")
               ELSE LET a == AddressParseText(value)
                    IN IF a.ok THEN Ok(AssetJetton(a.val)) ELSE Err(a.err)
     ELSE IF typeNumber.num = Num(EXTRA_CURRENCY)
          THEN IF value = <<>> THEN Err("Invalid asset value")
               ELSE AssetExtraCurrencyOf(ToNumber(value))
     ELSE Err("Invalid asset type: ")

\* Asset.fromID(id)
AssetFromID(id) ==
  LET parts == Split(id, ":", <<>>)
      type == Head(parts)
      value == Join(Tail(parts), ":")
      typeNumber == ToNumber(type)
  IN IF type = <<>> THEN Err("Invalid asset type")
     ELSE IF typeNumber.nan THEN Err("Invalid asset type: ")
     ELSE IF typeNumber.num = Num(TON) THEN Ok(AssetTon)
     ELSE IF typeNumber.num = Num(JETTON)
          THEN IF value = <<>> THEN Err("Invalid asset value")
               ELSE LET a == AddressParseText(value)
                    IN IF a.ok THEN Ok(AssetJetton(a.val)) ELSE Err(a.err)
     ELSE IF typeNumber.num = Num(EXTRA_CURRENCY)
          THEN IF value = <<>> THEN Err("Invalid asset value")
               ELSE AssetExtraCurrencyOf(ToNumber(value))
     ELSE Err("Invalid asset type: ")

(***************************************************************************)
(* Allocation                                                              *)
(***************************************************************************)
\* new Allocation({ asset, value }) with an Asset and a bigint: the schema
\* takes a bigint that is not negative.
Allocation(asset, value) ==
  IF value.neg THEN Err("ZodError: Number must be greater than or equal to 0")
  ELSE Ok([asset |-> asset, value |-> value])

\* BigInt(text): 0n of the empty text, the value of a decimal numeral, a
\* SyntaxError on the other texts of the model.
BigIntOfText(text) ==
  IF text = <<>> THEN Ok(BigInt(0))
  ELSE IF ~IsNumeral(text) THEN Err("SyntaxError: Cannot convert to a BigInt")
  ELSE LET neg == Head(text) = "-"
           ds == IF neg THEN Tail(text) ELSE text
       IN Ok(BigIntFromString([neg |-> neg,
                               digits |-> [i \in 1..Len(ds) |-> CharDigit(ds[i])]]))

\* new Allocation({ asset, value }) with the value in any form the schema
\* names: a bigint that is not negative; a number that is not negative,
\* turned into a bigint by BigInt(num), which throws on a fraction; a
\* string, turned into a bigint by BigInt(str).
AllocationNew(asset, input) ==
  CASE input.form = "bigint" -> Allocation(asset, input.big)
    [] input.form = "number" ->
         IF input.num[1] < 0 THEN Err("ZodError: Number must be greater than or equal to 0")
         ELSE IF ~input.integer THEN Err("RangeError: not an integer")
         ELSE Ok([asset |-> asset, value |-> NumToBigInt(input.num)])
    [] input.form = "string" ->
         LET value == BigIntOfText(input.text)
         IN IF value.ok THEN Ok([asset |-> asset, value |-> value.val]) ELSE Err(value.err)

\* Allocation.compare(other)
AllocationCompare(this, other) == AssetCompare(this.asset, other.asset)

\* Asset.toJSON() and new Asset(json) as the schema of an Allocation does it.
AssetToJSON(this) ==
  CASE this.type = TON -> [type |-> this.type]
    [] this.type = JETTON ->
         [type |-> this.type, jettonMaster |-> toRawString(this.jettonMaster)]
    [] this.type = EXTRA_CURRENCY -> [type |-> this.type, currencyId |-> this.currencyId]

AssetFromJSON(json) ==
  CASE json.type = TON -> AssetTon
    [] json.type = JETTON -> AssetJetton(AddressParse(json.jettonMaster))
    [] json.type = EXTRA_CURRENCY -> AssetExtraCurrency(json.currencyId)

\* Allocation.toJSON()
AllocationToJSON(this) ==
  [asset |-> AssetToJSON(this.asset), value |-> BigIntToString(this.value)]

(***************************************************************************)
(* RatePayload                                                             *)
(***************************************************************************)
\* parsed.rates.sort((a, b) => a.compare(b))
\* A sort that leaves the rates where they are.
sortRatesKeep(rates) ==
  LET order == sortOrder([i \in 1..Len(rates) |-> rates[i].asset])
  IN IF order.ok THEN Ok(rates) ELSE Err(order.err)

\* parsed.rates.sort((a, b) => a.compare(b)), where Allocation.compare is the
\* compare of the assets
sortRates(rates) ==
  LET order == sortOrder([i \in 1..Len(rates) |-> rates[i].asset])
  IN IF order.ok THEN Ok([i \in 1..Len(rates) |-> rates[order.val[i]]])
     ELSE Err(order.err)

\* A constructor that keeps the rates in the order it was given them.
RatePayloadUnsorted(expiration, rates) ==
  IF ~NumIsPositive(expiration) THEN Err("ZodError: Number must be greater than 0")
  ELSE IF sortRates(rates).ok THEN Ok([expiration |-> expiration, rates |-> rates])
  ELSE Err(sortRates(rates).err)

\* new RatePayload({ expiration, rates }) with rates a list of Allocations
RatePayload(expiration, rates) ==
  IF ~NumIsPositive(expiration) THEN Err("ZodError: Number must be greater than 0")
  ELSE LET sorted == sortRates(rates)
       IN IF sorted.ok THEN Ok([expiration |-> expiration, rates |-> sorted.val])
          ELSE Err(sorted.err)

\* RatePayload.toCell()
RatePayloadToCell(this) ==
  LET assetList == [i \in 1..Len(this.rates) |-> this.rates[i].asset]
      values == [i \in 1..Len(this.rates) |-> this.rates[i].value]
  IN endCell(storeRef(storeRef(storeUint32(beginCell, this.expiration),
                               storeSortedAssetsNested(assetList)),
                      storeCoinsNested(values)))

\* The allocations new Allocation({ asset, value }) gives for each index, or
\* its first error.
RECURSIVE mapAllocations(_, _, _)
mapAllocations(assetList, values, acc) ==
  IF Len(acc) = Len(assetList) THEN Ok(acc)
  ELSE LET a == Allocation(assetList[Len(acc) + 1], values[Len(acc) + 1])
       IN IF a.ok THEN mapAllocations(assetList, values, Append(acc, a.val))
          ELSE Err(a.err)

\* RatePayload.fromCell that pairs the assets and the values up to the
\* shorter of the two lists.
RatePayloadFromCellTruncating(c) ==
  Bind(loadUint32(beginParse(c)), LAMBDA expiration :
    IF ~expiration.ok THEN Err(expiration.err)
    ELSE Bind(loadRef(expiration.rest), LAMBDA assetsRef :
      IF ~assetsRef.ok THEN Err(assetsRef.err)
      ELSE Bind(parseAssetsFromNestedCell(assetsRef.val), LAMBDA assetList :
        IF ~assetList.ok THEN Err(assetList.err)
        ELSE Bind(loadRef(assetsRef.rest), LAMBDA valuesRef :
          IF ~valuesRef.ok THEN Err(valuesRef.err)
          ELSE Bind(parseCoinsFromNestedCell(valuesRef.val), LAMBDA values :
            IF ~values.ok THEN Err(values.err)
            ELSE Bind(mapAllocations(
                        SubSeq(assetList.val, 1, Min(Len(assetList.val), Len(values.val))),
                        values.val, <<>>), LAMBDA rates :
                   IF ~rates.ok THEN Err(rates.err)
                   ELSE RatePayload(expiration.val, rates.val)))))))

\* RatePayload.fromCell(c)
RatePayloadFromCell(c) ==
  Bind(loadUint32(beginParse(c)), LAMBDA expiration :
    IF ~expiration.ok THEN Err(expiration.err)
    ELSE Bind(loadRef(expiration.rest), LAMBDA assetsRef :
      IF ~assetsRef.ok THEN Err(assetsRef.err)
      ELSE Bind(parseAssetsFromNestedCell(assetsRef.val), LAMBDA assetList :
        IF ~assetList.ok THEN Err(assetList.err)
        ELSE Bind(loadRef(assetsRef.rest), LAMBDA valuesRef :
          IF ~valuesRef.ok THEN Err(valuesRef.err)
          ELSE Bind(parseCoinsFromNestedCell(valuesRef.val), LAMBDA values :
            IF ~values.ok THEN Err(values.err)
            ELSE IF Len(assetList.val) # Len(values.val)
                 THEN Err("Assets and values length mismatch")
                 ELSE Bind(mapAllocations(assetList.val, values.val, <<>>), LAMBDA rates :
                        IF ~rates.ok THEN Err(rates.err)
                        ELSE RatePayload(expiration.val, rates.val)))))))

\* RatePayload.toJSON()
RatePayloadToJSON(this) ==
  [expiration |-> this.expiration,
   rates |-> [i \in 1..Len(this.rates) |-> AllocationToJSON(this.rates[i])]]

\* What AllocationSchema.parse gives for a rate of a JSON: the Asset of the
\* asset object and BigInt(str) of the text.
AllocationSchemaParse(json) ==
  [asset |-> AssetFromJSON(json.asset), value |-> BigIntFromString(json.value)]

\* RatePayload.fromJSON(json): the schema parses each rate and makes
\* new Allocation(rate) of it, then the constructor sorts.
RatePayloadFromJSON(json) ==
  LET parsed == [i \in 1..Len(json.rates) |-> AllocationSchemaParse(json.rates[i])]
      rates == mapAllocations([i \in 1..Len(parsed) |-> parsed[i].asset],
                              [i \in 1..Len(parsed) |-> parsed[i].value], <<>>)
  IN IF ~rates.ok THEN Err(rates.err) ELSE RatePayload(json.expiration, rates.val)

(***************************************************************************)
(* SignedRate. The digest of a payload is the representation hash of its   *)
(* cell, which the model keeps as the cell it is the hash of; a signature  *)
(* is the 64 bytes that sign(digest, secretKey) of @ton/crypto returns,    *)
(* kept as the digest and the key they were made from.                     *)
(***************************************************************************)
SIGNATURE_BYTES == 64

\* Cell.hash()
CellHash(c) == [hashOf |-> c]

\* sign(digest, secretKey) of @ton/crypto: throws on a key that is not a
\* 64-byte secret key.
sign(digest, secretKey) ==
  IF secretKey.bytes # SIGNATURE_BYTES THEN Err("bad secret key size")
  ELSE Ok([bytes |-> SIGNATURE_BYTES, digest |-> digest, key |-> secretKey.name])

\* The public key of the key pair of a secret key.
PublicKey(secretKey) == [name |-> secretKey.name]

\* signVerify(digest, signature, publicKey) of @ton/crypto: the signature was
\* made of this digest with the secret key of the pair.
signVerify(digest, signature, publicKey) ==
  signature.digest = digest /\ signature.key = publicKey.name

\* A sign that gives the signer the cell in place of its hash.
RatePayloadSignBytes(this, secretKey) ==
  LET c == RatePayloadToCell(this)
  IN IF c.ok THEN sign(c.val, secretKey) ELSE Err(c.err)

\* RatePayload.sign(secretKey): what the promise it returns settles to.
RatePayloadSign(this, secretKey) ==
  LET c == RatePayloadToCell(this)
  IN IF c.ok THEN sign(CellHash(c.val), secretKey) ELSE Err(c.err)

\* An optional value is the empty sequence or the sequence of the value.
None == <<>>

Some(x) == <<x>>

\* A node that is not linked to the chain made so far.
SignedRateUnlinked(signature, payload, nextSignedRate) ==
  [signature |-> signature, payload |-> payload, nextSignedRate |-> None]

\* A node that carries the signature of the node after it, when there is one.
SignedRateNextSignature(signature, payload, nextSignedRate) ==
  [signature |-> IF nextSignedRate = None THEN signature ELSE nextSignedRate[1].signature,
   payload |-> payload, nextSignedRate |-> nextSignedRate]

\* new SignedRate({ signature, payload, nextSignedRate })
SignedRate(signature, payload, nextSignedRate) ==
  [signature |-> signature, payload |-> payload, nextSignedRate |-> nextSignedRate]

\* Builder.storeBuffer(buffer, 64)
storeBuffer64(b, buffer) ==
  IF b.err # "" THEN b
  ELSE IF buffer.bytes # SIGNATURE_BYTES
       THEN [b EXCEPT !.err = "Buffer size must be 64 bytes"]
       ELSE storeBits(b, "sig", 8 * SIGNATURE_BYTES, buffer)

\* Builder.storeMaybeRef(c), c None or Some(the result of building the cell)
storeMaybeRef(b, c) ==
  IF b.err # "" THEN b
  ELSE IF c = None THEN storeBits(b, "n", 1, 0)
  ELSE IF ~c[1].ok THEN [b EXCEPT !.err = c[1].err]
  ELSE storeRef(storeBits(b, "n", 1, 1), c[1])

\* SignedRate.toCell()
RECURSIVE SignedRateToCell(_)
SignedRateToCell(this) ==
  Bind(storeRef(storeBuffer64(beginCell, this.signature), RatePayloadToCell(this.payload)),
       LAMBDA withPayload :
         IF withPayload.err # "" THEN endCell(withPayload)
         ELSE IF this.nextSignedRate = None
              THEN endCell(storeMaybeRef(withPayload, None))
              ELSE Bind(SignedRateToCell(this.nextSignedRate[1]), LAMBDA nextCell :
                     endCell(storeMaybeRef(withPayload, Some(nextCell)))))

\* Slice.loadBuffer(64)
loadBuffer64(s) ==
  IF s.bits = <<>> \/ Head(s.bits).kind # "sig"
  THEN [ok |-> FALSE, err |-> "Index out of bounds", rest |-> s]
  ELSE [ok |-> TRUE, val |-> Head(s.bits).v, rest |-> [s EXCEPT !.bits = Tail(@)]]

\* Slice.loadMaybeRef(): val is None or Some(cell)
loadMaybeRef(s) ==
  IF s.bits = <<>> \/ Head(s.bits).w # 1 \/ Head(s.bits).kind # "n"
  THEN [ok |-> FALSE, err |-> "Index out of bounds", rest |-> s]
  ELSE LET after == [s EXCEPT !.bits = Tail(@)]
       IN IF Head(s.bits).v = 0 THEN [ok |-> TRUE, val |-> None, rest |-> after]
          ELSE IF after.refs = <<>>
               THEN [ok |-> FALSE, err |-> "No more references", rest |-> after]
               ELSE [ok |-> TRUE, val |-> Some(Head(after.refs)),
                     rest |-> [after EXCEPT !.refs = Tail(@)]]

\* SignedRate.fromCell(c)
RECURSIVE SignedRateFromCell(_)
SignedRateFromCell(c) ==
  Bind(loadBuffer64(beginParse(c)), LAMBDA signature :
    IF ~signature.ok THEN Err(signature.err)
    ELSE Bind(loadRef(signature.rest), LAMBDA payloadRef :
      IF ~payloadRef.ok THEN Err(payloadRef.err)
      ELSE Bind(RatePayloadFromCell(payloadRef.val), LAMBDA payload :
        IF ~payload.ok THEN Err(payload.err)
        ELSE Bind(loadMaybeRef(payloadRef.rest), LAMBDA nextSignedRateCell :
          IF ~nextSignedRateCell.ok THEN Err(nextSignedRateCell.err)
          ELSE IF nextSignedRateCell.val = None
               THEN Ok(SignedRate(signature.val, payload.val, None))
               ELSE Bind(SignedRateFromCell(nextSignedRateCell.val[1]), LAMBDA nextSignedRate :
                      IF ~nextSignedRate.ok THEN Err(nextSignedRate.err)
                      ELSE Ok(SignedRate(signature.val, payload.val,
                                         Some(nextSignedRate.val))))))))

(***************************************************************************)
(* JSON of the values.  The hexadecimal text of a buffer has two           *)
(* characters for each byte.                                               *)
(***************************************************************************)
\* buffer.toString('hex')
BufferToHex(buffer) ==
  [chars |-> 2 * buffer.bytes, digest |-> buffer.digest, key |-> buffer.key]

\* Buffer.from(text, 'hex')
BufferFromHex(text) ==
  [bytes |-> text.chars \div 2, digest |-> text.digest, key |-> text.key]

\* Allocation.fromJSON(json): new Allocation(json), the asset made of its
\* object and the value of its string by BigInt(str).
AllocationFromJSON(json) ==
  Ok([asset |-> AssetFromJSON(json.asset), value |-> BigIntFromString(json.value)])

\* SignedRate.toJSON()
RECURSIVE SignedRateToJSON(_)
SignedRateToJSON(this) ==
  [signature |-> BufferToHex(this.signature),
   payload |-> RatePayloadToJSON(this.payload),
   nextSignedRate |-> IF this.nextSignedRate = None THEN None
                      ELSE Some(SignedRateToJSON(this.nextSignedRate[1]))]

\* SignedRate.fromJSON(json)
RECURSIVE SignedRateFromJSON(_)
SignedRateFromJSON(json) ==
  Bind(RatePayloadFromJSON(json.payload), LAMBDA payload :
    IF ~payload.ok THEN Err(payload.err)
    ELSE IF json.nextSignedRate = None
         THEN Ok(SignedRate(BufferFromHex(json.signature), payload.val, None))
         ELSE Bind(SignedRateFromJSON(json.nextSignedRate[1]), LAMBDA nextSignedRate :
                IF ~nextSignedRate.ok THEN Err(nextSignedRate.err)
                ELSE Ok(SignedRate(BufferFromHex(json.signature), payload.val,
                                   Some(nextSignedRate.val)))))

(***************************************************************************)
(* normalize.  A Map is the sequence of its entries <<key, value>> in      *)
(* insertion order: setting a key that is there replaces its value.        *)
(***************************************************************************)
MapSet(map, key, value) ==
  IF \E i \in 1..Len(map) : map[i][1] = key
  THEN [i \in 1..Len(map) |-> IF map[i][1] = key THEN <<key, value>> ELSE map[i]]
  ELSE Append(map, <<key, value>>)

\* new Map(entries)
RECURSIVE NewMap(_)
NewMap(entries) ==
  IF entries = <<>> THEN <<>>
  ELSE LET last == entries[Len(entries)]
       IN MapSet(NewMap(SubSeq(entries, 1, Len(entries) - 1)), last[1], last[2])

\* map.get(key): the value, or undefined (None).
MapGet(map, key) ==
  IF \E i \in 1..Len(map) : map[i][1] = key
  THEN Some(map[CHOOSE i \in 1..Len(map) : map[i][1] = key][2])
  ELSE None

\* normalize with the Map keyed by the asset's type in place of its ID.
normalizeByType(alloc, target) ==
  LET allocs == IF alloc.isArray THEN alloc.allocs ELSE <<alloc.allocs[1]>>
      allocMap == NewMap([i \in 1..Len(allocs) |->
                            <<NumberText(Num(allocs[i].asset.type)), allocs[i]>>])
  IN Ok([i \in 1..Len(target) |->
           LET hit == MapGet(allocMap, NumberText(Num(target[i].type)))
           IN IF hit # None THEN hit[1] ELSE Allocation(target[i], BigInt(0)).val])

\* normalize with a Map in which the first entry of a key stays.
normalizeFirstWins(alloc, target) ==
  LET allocs == IF alloc.isArray THEN alloc.allocs ELSE <<alloc.allocs[1]>>
      allocMap == NewMap([i \in 1..Len(allocs) |->
                            <<AssetID(allocs[Len(allocs) - i + 1].asset),
                              allocs[Len(allocs) - i + 1]>>])
  IN Ok([i \in 1..Len(target) |->
           LET hit == MapGet(allocMap, AssetID(target[i]))
           IN IF hit # None THEN hit[1] ELSE Allocation(target[i], BigInt(0)).val])

\* normalize(alloc, target): alloc is one allocation (isArray FALSE, the
\* allocation is allocs[1]) or an array of them.
normalize(alloc, target) ==
  LET allocs == IF alloc.isArray THEN alloc.allocs ELSE <<alloc.allocs[1]>>
      allocMap == NewMap([i \in 1..Len(allocs) |-> <<AssetID(allocs[i].asset), allocs[i]>>])
  IN Ok([i \in 1..Len(target) |->
           LET hit == MapGet(allocMap, AssetID(target[i]))
           IN IF hit # None THEN hit[1] ELSE Allocation(target[i], BigInt(0)).val])

(***************************************************************************)
(* Inputs of the scenarios.                                                *)
(***************************************************************************)
MaxCoins == 15

MaxAssets == 8

MaxPeriod == 3

\* 2^120 - 1, the largest value of a Coins field, and 2^120, one too many.
MaxCoinsValue == [neg |-> FALSE, mag |-> RepeatByte(255, 15)]

TooLargeCoins == [neg |-> FALSE, mag |-> <<1>> \o RepeatByte(0, 15)]

CoinValues == {BigInt(0), BigInt(1), BigInt(255), BigInt(256), MaxCoinsValue, TooLargeCoins}

\* The sequence of length n that repeats the pattern p.
Periodic(p, n) == [i \in 1..n |-> p[((i - 1) % Len(p)) + 1]]

Patterns(S, maxLen) == UNION {[1..k -> S] : k \in 1..maxLen}

CoinInputs == {Periodic(p, n) : p \in Patterns(CoinValues, MaxPeriod), n \in 0..MaxCoins}

FitsCoins(v) == ~v.neg /\ Len(v.mag) <= 15

AssetUniverse ==
  {AssetTon, AssetJetton(stton), AssetJetton(tston), AssetJetton(usdt),
   AssetExtraCurrency(Num(1)), AssetExtraCurrency(Num(-1))}

AssetInputs ==
  {Periodic(p, n) : p \in Patterns(AssetUniverse, MaxPeriod), n \in 0..MaxAssets}

NoCompare == [called |-> FALSE]

MaxRates == 4

\* 2^32 - 1, the largest expiration of the 32-bit field, and 2^32.
MaxUint32 == <<LIMB - 1, LIMB - 1>>

TooLargeUint32 == <<LIMB, 0>>

Expirations == {Num(1), MaxUint32, TooLargeUint32, Num(0)}

\* new Allocation({ asset, value }) for the values of the model.
AllocationUniverse ==
  {Allocation(AssetTon, BigInt(1)).val,
   Allocation(AssetTon, BigInt(255)).val,
   Allocation(AssetJetton(stton), BigInt(0)).val,
   Allocation(AssetJetton(tston), MaxCoinsValue).val,
   Allocation(AssetJetton(usdt), BigInt(256)).val,
   Allocation(AssetExtraCurrency(Num(1)), BigInt(1)).val,
   Allocation(AssetExtraCurrency(Num(-1)), BigInt(255)).val}

RateInputs ==
  {Periodic(p, n) : p \in Patterns(AllocationUniverse, MaxPeriod), n \in 0..MaxRates}

NoOther == [made |-> FALSE]

RatesIdle ==
  /\ rateExpiration = Num(0)
  /\ rateList = <<>>
  /\ ratePayload = NoResult
  /\ rateCell = NoResult
  /\ rateDecoded = NoResult
  /\ ratePermuted = NoOther

MaxChain == 3

\* The names of the SignedRate.fromRates calls that may be in flight together.
Calls == {"first", "second"}

\* A 64-byte secret key, and a buffer that is no secret key.
SecretKey == [name |-> "oracle", bytes |-> SIGNATURE_BYTES]

ShortKey == [name |-> "short", bytes |-> 32]

\* The payloads of the repository's test in the shape of its example, a
\* payload with one extra currency of a negative id, and a payload whose
\* expiration is beyond 32 bits.
tritonRatePayload ==
  RatePayload(Num(1), <<Allocation(AssetTon, BigInt(1)).val,
                        Allocation(AssetJetton(tston), MaxCoinsValue).val,
                        Allocation(AssetJetton(stton), BigInt(0)).val,
                        Allocation(AssetJetton(usdt), BigInt(256)).val>>).val

metaRatePayload ==
  RatePayload(MaxUint32, <<Allocation(AssetTon, BigInt(255)).val,
                           Allocation(AssetJetton(usdt), BigInt(256)).val>>).val

extraRatePayload ==
  RatePayload(Num(1), <<Allocation(AssetExtraCurrency(Num(-1)), BigInt(255)).val>>).val

lateRatePayload ==
  RatePayload(TooLargeUint32, <<Allocation(AssetTon, BigInt(1)).val>>).val

\* The arrays given to fromRates: an element is Some(payload), or None for an
\* element that is undefined.
ChainPatterns ==
  {<<Some(tritonRatePayload), Some(metaRatePayload)>>,
   <<Some(metaRatePayload), Some(extraRatePayload), Some(tritonRatePayload)>>,
   <<Some(tritonRatePayload), Some(lateRatePayload), Some(metaRatePayload)>>,
   <<None, Some(metaRatePayload)>>,
   <<Some(extraRatePayload)>>}

ChainInputs == {Periodic(p, n) : p \in ChainPatterns, n \in 0..MaxChain}

ChainIdle ==
  /\ pc = [c \in Calls |-> "idle"]
  /\ chainRates = [c \in Calls |-> <<>>]
  /\ chainKey = [c \in Calls |-> SecretKey]
  /\ loopIndex = [c \in Calls |-> 0]
  /\ prevSignedRate = [c \in Calls |-> None]
  /\ pending = [c \in Calls |-> NoResult]
  /\ signCalls = [c \in Calls |-> <<>>]
  /\ chainResult = [c \in Calls |-> NoResult]
  /\ chainCell = [c \in Calls |-> NoResult]
  /\ chainDecoded = [c \in Calls |-> NoResult]

\* -2^31 and 2^31 - 1, the ends of the signed 32-bit range, and 2^31.
MinInt32 == <<-(LIMB \div 2), 0>>

MaxInt32 == <<LIMB \div 2 - 1, LIMB - 1>>

TooLargeInt32 == <<LIMB \div 2, 0>>

CurrencyIds == {Num(0), Num(1), Num(-1), MinInt32, MaxInt32, TooLargeInt32}

OneAssets ==
  {AssetTon} \cup {AssetJetton(a) : a \in Addresses}
    \cup {AssetExtraCurrency(id) : id \in CurrencyIds}

\* The values given to new Allocation: a bigint, a number (an integer, or an
\* integer and a half), or a string. Each holds its form and the value in the
\* field of that form.
AmountBigint(b) ==
  [form |-> "bigint", big |-> b, num |-> Num(0), integer |-> TRUE, text |-> <<>>]

AmountNumber(n, i) ==
  [form |-> "number", big |-> BigInt(0), num |-> n, integer |-> i, text |-> <<>>]

AmountString(t) ==
  [form |-> "string", big |-> BigInt(0), num |-> Num(0), integer |-> TRUE, text |-> t]

AmountInputs ==
  {AmountBigint(b) :
     b \in {BigInt(0), BigInt(1), MaxCoinsValue, TooLargeCoins, [neg |-> TRUE, mag |-> <<1>>]}}
  \cup {AmountNumber(n, i) : n \in {Num(0), Num(1), Num(-1), MaxInt32}, i \in BOOLEAN}
  \cup {AmountString(t) :
          t \in {<<"0">>, <<"1", "0", "0">>, <<"-", "5">>, <<"-", "0">>, <<>>, <<"1", ":">>,
                 NumberText(MaxInt32) \o NumberText(MaxInt32)}}

\* Texts given to Asset.fromID that are the ID of no asset.
ForeignIDs ==
  {<<>>, <<":">>, <<"1">>, <<"2", ":">>, <<"3", ":", "1">>, <<"x">>, <<"2", ":", "x">>,
   <<"1", ":", "0", ":">>, <<"0", ":", "7">>, <<"-", "1", ":", "1">>}

NoText == <<"?">>

NoAsset == [type |-> -1]

NoAmount == AmountString(<<"?">>)

ValueIdle ==
  /\ oneAsset = NoAsset
  /\ oneAmount = NoAmount
  /\ oneCell = NoResult
  /\ oneFromCell = NoResult
  /\ oneID = NoText
  /\ oneFromID = NoResult
  /\ oneAllocation = NoResult

MaxAllocs == 3

MaxTargets == 3

\* The allocations given to normalize: two of them are of the same asset.
NormAllocations ==
  {Allocation(AssetTon, BigInt(100)).val,
   Allocation(AssetJetton(tston), BigInt(100)).val,
   Allocation(AssetJetton(tston), BigInt(7)).val,
   Allocation(AssetJetton(stton), BigInt(100)).val}

NormTargetAssets == {AssetTon, AssetJetton(tston), AssetJetton(stton)}

AllocInputs ==
  {[isArray |-> FALSE, allocs |-> <<a>>] : a \in NormAllocations}
  \cup {[isArray |-> TRUE, allocs |-> as] :
          as \in {<<>>} \cup Patterns(NormAllocations, MaxAllocs)}

TargetInputs == {<<>>} \cup Patterns(NormTargetAssets, MaxTargets)

MaxWireAssets == 5

MaxWireDepth == 3

\* The descriptor of a received cell: the decoder it is for, what is wrong
\* with it, the prefix of the asset cell at position `at` (0: all are sound),
\* the numbers of assets and of coins, the depth of the chain and the node
\* that is unsound (0: none).
Wire(kind, fault, prefix, at, n, m, depth, node) ==
  [kind |-> kind, fault |-> fault, prefix |-> prefix, at |-> at,
   assets |-> n, coins |-> m, depth |-> depth, node |-> node]

InvalidPrefixes == 3..15

WireInputs ==
  {Wire("asset", IF p \in InvalidPrefixes THEN "prefix" ELSE "none", p, 1, 1, 0, 0, 0) :
     p \in 0..15}
  \cup {Wire("assets", "none", TON, 0, n, 0, 0, 0) : n \in 0..MaxWireAssets}
  \cup UNION {{Wire("assets", "prefix", p, at, n, 0, 0, 0) : p \in {3, 15}, at \in 1..n} :
                n \in 1..MaxWireAssets}
  \cup {Wire("payload", IF n = m THEN "none" ELSE "length", TON, 0, n, m, 0, 0) :
          n \in 0..MaxWireAssets, m \in 0..(MaxWireAssets + 1)}
  \cup UNION {{Wire("payload", "prefix", p, at, n, m, 0, 0) :
                 p \in {3, 15}, at \in 1..n, m \in 0..(MaxWireAssets + 1)} :
                n \in 1..MaxWireAssets}
  \cup {Wire("chain", "none", TON, 0, 2, 2, d, 0) : d \in 1..MaxWireDepth}
  \cup UNION {{Wire("chain", f, 15, 0, 2, 2, d, node) :
                 f \in {"prefix", "length", "signature"}, node \in 1..d} :
                d \in 1..MaxWireDepth}

\* The cells a producer other than this library lays out in the format of
\* the library.  An asset cell with the prefix p: the address of a jetton
\* master after the prefix 1, a currency id after the prefix 2.
WireAssetCell(p) ==
  CASE p = JETTON -> endCell(storeAddress(storeBits(beginCell, "n", 4, p), tston))
    [] p = EXTRA_CURRENCY -> endCell(storeInt32(storeBits(beginCell, "n", 4, p), Num(1)))
    [] OTHER -> endCell(storeBits(beginCell, "n", 4, p))

WireAssets(n) ==
  Periodic(<<AssetTon, AssetJetton(tston), AssetJetton(stton), AssetJetton(usdt)>>, n)

WireCoins(m) == Periodic(<<BigInt(1), BigInt(255)>>, m)

\* The cells of n assets, the one at position `at` with the prefix p.
WireAssetCells(n, at, p) ==
  [i \in 1..n |-> IF i = at THEN WireAssetCell(p) ELSE AssetToCell(WireAssets(n)[i])]

\* The layout of storeSortedAssetsNested on asset cells already built.
RECURSIVE WireAssetsLayer(_, _)
WireAssetsLayer(b, layer) ==
  IF layer = <<>> THEN b
  ELSE WireAssetsLayer(storeRef(b, Head(layer)), Tail(layer))

RECURSIVE WireAssetsNested(_)
WireAssetsNested(cells) ==
  LET currentAssets == SubSeq(cells, 1, Min(Len(cells), MAX_ASSETS_PER_CELL))
      remainingAssets == SubSeq(cells, MAX_ASSETS_PER_CELL + 1, Len(cells))
      builder == WireAssetsLayer(beginCell, currentAssets)
  IN IF Len(remainingAssets) > 0
     THEN endCell(storeRef(builder, WireAssetsNested(remainingAssets)))
     ELSE endCell(builder)

\* The layout of RatePayload.toCell: n asset cells and m coins.
WirePayloadCell(n, m, at, p) ==
  endCell(storeRef(storeRef(storeUint32(beginCell, Num(1)),
                            WireAssetsNested(WireAssetCells(n, at, p))),
                   storeCoinsNested(WireCoins(m))))

WireSignature == [bytes |-> SIGNATURE_BYTES, digest |-> "foreign", key |-> "foreign"]

\* The layout of SignedRate.toCell for the nodes i..depth of a chain, the
\* node `node` unsound: its signature missing, or in its payload an asset
\* cell of an invalid prefix or one coin more than assets.
RECURSIVE WireChainCell(_, _, _, _)
WireChainCell(depth, node, fault, i) ==
  LET unsound == i = node
      signed == IF unsound /\ fault = "signature" THEN beginCell
                ELSE storeBuffer64(beginCell, WireSignature)
      payload == IF unsound /\ fault = "prefix" THEN WirePayloadCell(2, 2, 2, 15)
                 ELSE IF unsound /\ fault = "length" THEN WirePayloadCell(2, 3, 0, TON)
                 ELSE WirePayloadCell(2, 2, 0, TON)
      next == IF i = depth THEN None ELSE Some(WireChainCell(depth, node, fault, i + 1))
  IN endCell(storeMaybeRef(storeRef(signed, payload), next))

\* The cell of a descriptor.
WireCell(w) ==
  CASE w.kind = "asset" -> WireAssetCell(w.prefix)
    [] w.kind = "assets" -> WireAssetsNested(WireAssetCells(w.assets, w.at, w.prefix))
    [] w.kind = "payload" -> WirePayloadCell(w.assets, w.coins, w.at, w.prefix)
    [] w.kind = "chain" -> WireChainCell(w.depth, w.node, w.fault, 1)

NoAlloc == [isArray |-> TRUE, allocs |-> <<>>]

NormIdle ==
  /\ normAlloc = NoAlloc
  /\ normTarget = <<>>
  /\ normalized = NoResult

NoWire == Wire("none", "none", TON, 0, 0, 0, 0, 0)

DecodeIdle ==
  /\ wire = NoWire
  /\ wireCell = endCell(beginCell).val
  /\ wireDecoded = NoResult

\* What the values converted to JSON are made of: an asset; an allocation
\* of an asset and a value in any form; a payload of n rates, the first of
\* them that allocation; a chain of `depth` nodes of payloads of two rates.
Subject(kind, asset, amount, n, depth) ==
  [kind |-> kind, asset |-> asset, amount |-> amount, n |-> n, depth |-> depth]

JsonAssets ==
  {AssetTon, AssetJetton(tston), AssetJetton(elector), AssetExtraCurrency(Num(-1))}

JsonAmounts ==
  {AmountBigint(BigInt(1)), AmountBigint(TooLargeCoins), AmountNumber(MaxInt32, TRUE),
   AmountString(<<"1", "0", "0">>), AmountString(<<"-", "5">>)}

JsonSubjects ==
  {Subject("asset", a, AmountBigint(BigInt(0)), 0, 0) : a \in OneAssets}
  \cup {Subject("allocation", a, v, 0, 0) : a \in OneAssets, v \in AmountInputs}
  \cup {Subject("payload", a, v, n, 0) : a \in JsonAssets, v \in JsonAmounts, n \in 0..MaxRates}
  \cup {Subject("chain", a, v, 2, d) : a \in JsonAssets, v \in JsonAmounts, d \in 1..MaxChain}

\* The rates of a payload of n rates whose first is the allocation.
SubjectRates(allocation, n) ==
  Periodic(<<allocation, Allocation(AssetTon, BigInt(1)).val,
             Allocation(AssetJetton(tston), MaxCoinsValue).val>>, n)

\* The signature of a payload: sign's, or 64 bytes from elsewhere when the
\* payload cannot be signed.
SubjectSignature(payload) ==
  IF RatePayloadSign(payload, SecretKey).ok THEN RatePayloadSign(payload, SecretKey).val
  ELSE [bytes |-> SIGNATURE_BYTES, digest |-> "foreign", key |-> "foreign"]

\* The chain of the nodes i..depth, the payload of node i with expiration i.
RECURSIVE SubjectChain(_, _, _)
SubjectChain(allocation, depth, i) ==
  LET payload == RatePayload(Num(i), SubjectRates(allocation, 2))
      next == IF i = depth THEN Ok(None) ELSE SubjectChain(allocation, depth, i + 1)
  IN IF ~payload.ok THEN Err(payload.err)
     ELSE IF ~next.ok THEN Err(next.err)
     ELSE Ok(Some(SignedRate(SubjectSignature(payload.val), payload.val, next.val)))

\* The value the constructors make of a subject, or what they throw.
SubjectValue(x) ==
  LET allocation == AllocationNew(x.asset, x.amount)
  IN CASE x.kind = "asset" -> Ok(x.asset)
       [] x.kind = "allocation" -> allocation
       [] x.kind = "payload" ->
            IF allocation.ok THEN RatePayload(Num(1), SubjectRates(allocation.val, x.n))
            ELSE Err(allocation.err)
       [] x.kind = "chain" ->
            IF ~allocation.ok THEN Err(allocation.err)
            ELSE LET chain == SubjectChain(allocation.val, x.depth, 1)
                 IN IF chain.ok THEN Ok(chain.val[1]) ELSE Err(chain.err)

NoSubject == Subject("none", AssetTon, AmountBigint(BigInt(0)), 0, 0)

JsonIdle ==
  /\ jsonSubject = NoSubject
  /\ jsonValue = NoResult
  /\ jsonText = NoResult
  /\ jsonBack = NoResult

\* What the encoders are given: a list of n amounts; a list of n assets; an
\* asset; a payload of n rates with an expiration; a chain of `depth`
\* nodes. The first item of a list is the amount, the asset, or the
\* allocation of the two.
MaxBuilt == 15

MaxBuiltRates == 8

Built(kind, asset, amount, expiration, n, depth) ==
  [kind |-> kind, asset |-> asset, amount |-> amount, expiration |-> expiration, n |-> n,
   depth |-> depth]

BuiltAmounts == {BigInt(0), BigInt(1), MaxCoinsValue, TooLargeCoins}

BuiltInputs ==
  {Built("coins", AssetTon, v, Num(1), n, 0) : v \in BuiltAmounts, n \in 0..MaxBuilt}
  \cup {Built("assets", a, BigInt(0), Num(1), n, 0) : a \in JsonAssets, n \in 0..MaxBuilt}
  \cup {Built("asset", a, BigInt(0), Num(1), 0, 0) : a \in OneAssets}
  \cup {Built("payload", a, v, e, n, 0) :
          a \in JsonAssets, v \in BuiltAmounts, e \in Expirations, n \in 0..MaxBuiltRates}
  \cup {Built("chain", a, v, Num(1), 2, d) :
          a \in JsonAssets, v \in BuiltAmounts, d \in 1..MaxChain}

BuiltCoins(amount, n) == Periodic(<<amount, MaxCoinsValue, amount>>, n)

BuiltAssets(asset, n) ==
  Periodic(<<asset, AssetTon, AssetJetton(stton), AssetJetton(usdt),
             AssetExtraCurrency(Num(1))>>, n)

BuiltRates(allocation, n) ==
  Periodic(<<allocation, Allocation(AssetTon, BigInt(1)).val,
             Allocation(AssetJetton(stton), MaxCoinsValue).val,
             Allocation(AssetJetton(usdt), BigInt(256)).val,
             Allocation(AssetJetton(elector), BigInt(0)).val>>, n)

\* The value the encoder is called on, or what its constructor throws.
BuiltValue(x) ==
  CASE x.kind = "coins" -> Ok(BuiltCoins(x.amount, x.n))
    [] x.kind = "assets" -> Ok(BuiltAssets(x.asset, x.n))
    [] x.kind = "asset" -> Ok(x.asset)
    [] x.kind = "payload" ->
         RatePayload(x.expiration, BuiltRates(Allocation(x.asset, x.amount).val, x.n))
    [] x.kind = "chain" ->
         LET chain == SubjectChain(Allocation(x.asset, x.amount).val, x.depth, 1)
         IN IF chain.ok THEN Ok(chain.val[1]) ELSE Err(chain.err)

NoMade == Built("none", AssetTon, BigInt(0), Num(0), 0, 0)

BuildIdle ==
  /\ made = NoMade
  /\ madeValue = NoResult
  /\ madeCell = NoResult

\* What the loops and recursions are run on: a chain of amount cells or of
\* asset cells received from elsewhere, cell k with counts[k] items and,
\* but for the last, an overflow reference; a received chain of nodes, the
\* node `node` unsound; n amounts or n assets to store, the first out of
\* the range of its field when the fault is "range".
MaxWalkDepth == 3

Walk(kind, counts, fault, node) ==
  [kind |-> kind, counts |-> counts, fault |-> fault, node |-> node]

WalkCoinCounts == {0, 1, MAX_COINS_PER_CELL, MAX_COINS_PER_CELL + 1}

WalkAssetCounts == {0, 1, MAX_ASSETS_PER_CELL, MAX_ASSETS_PER_CELL + 1}

WalkInputs ==
  {Walk("coins", cs, "none", 0) : cs \in Patterns(WalkCoinCounts, MaxWalkDepth)}
  \cup {Walk("assets", cs, "none", 0) :
          cs \in {p \in Patterns(WalkAssetCounts, MaxWalkDepth) :
                    \A k \in 1..(Len(p) - 1) : p[k] <= MAX_ASSETS_PER_CELL}}
  \cup {Walk("chain", [k \in 1..d |-> 1], "none", 0) : d \in 1..MaxWalkDepth}
  \cup UNION {{Walk("chain", [k \in 1..d |-> 1], f, node) :
                 f \in {"prefix", "length", "signature"}, node \in 1..d} :
                d \in 1..MaxWalkDepth}
  \cup {Walk(kind, <<n>>, f, 0) :
          kind \in {"storeCoins", "storeAssets"}, n \in 0..MaxBuilt, f \in {"none", "range"}}

\* The items of cell k of a received chain.
WalkCoinItems(counts, k) == [i \in 1..counts[k] |-> BigInt(10 * k + i)]

WalkAssetItems(counts, k) ==
  [i \in 1..counts[k] |->
     <<AssetTon, AssetJetton(tston), AssetJetton(stton), AssetJetton(usdt)>>[((k + i) % 4) + 1]]

\* The cells k.. of a received chain of amount cells, and of asset cells.
RECURSIVE WalkCoinCell(_, _)
WalkCoinCell(counts, k) ==
  LET builder == storeCoinsLayer(beginCell, WalkCoinItems(counts, k))
  IN IF k < Len(counts) THEN endCell(storeRef(builder, WalkCoinCell(counts, k + 1)))
     ELSE endCell(builder)

RECURSIVE WalkAssetCell(_, _)
WalkAssetCell(counts, k) ==
  LET builder == storeAssetsLayer(beginCell, WalkAssetItems(counts, k))
  IN IF k < Len(counts) THEN endCell(storeRef(builder, WalkAssetCell(counts, k + 1)))
     ELSE endCell(builder)

\* The items to store.
WalkStored(w) ==
  IF w.kind = "storeCoins"
  THEN BuiltCoins(IF w.fault = "range" THEN TooLargeCoins ELSE BigInt(1), w.counts[1])
  ELSE BuiltAssets(IF w.fault = "range" THEN AssetExtraCurrency(TooLargeInt32)
                   ELSE AssetJetton(tston), w.counts[1])

\* The cell a parser is called on; the stores are called on no cell.
WalkCell(w) ==
  CASE w.kind = "coins" -> WalkCoinCell(w.counts, 1).val
    [] w.kind = "assets" -> WalkAssetCell(w.counts, 1).val
    [] w.kind = "chain" -> WireChainCell(Len(w.counts), w.node, w.fault, 1).val
    [] OTHER -> endCell(beginCell).val

NoWalk == Walk("none", <<>>, "none", 0)

WalkIdle ==
  /\ walk = NoWalk
  /\ walkCell = endCell(beginCell).val
  /\ walkSlice = beginParse(endCell(beginCell).val)
  /\ walkItems = <<>>
  /\ walkI = 0
  /\ walkIterations = 0
  /\ walkMoves = 0
  /\ walkPc = "idle"
  /\ walkResult = NoResult

MoreIdle == ValueIdle /\ NormIdle /\ DecodeIdle /\ JsonIdle /\ BuildIdle /\ WalkIdle

CoinsIdle == coins = <<>> /\ coinCell = NoResult /\ parsedCoins = NoResult

AssetsIdle ==
  /\ assets = <<>>
  /\ cmp = NoCompare
  /\ sortedAssets = NoResult
  /\ assetCell = NoResult
  /\ parsedAssets = NoResult

(***************************************************************************)
(* SpecCoins: storeCoinsNested on a list of coins, then                    *)
(* parseCoinsFromNestedCell on the cell it returned.                       *)
(***************************************************************************)
InitCoins ==
  /\ phase = "input"
  /\ coins \in CoinInputs
  /\ coinCell = NoResult
  /\ parsedCoins = NoResult
  /\ AssetsIdle
  /\ RatesIdle
  /\ ChainIdle
  /\ MoreIdle

StoreCoins ==
  /\ phase = "input"
  /\ coinCell' = storeCoinsNested(coins)
  /\ phase' = "stored"
  /\ UNCHANGED <<coins, parsedCoins, assetVars, rateVars, chainVars, moreVars>>

ParseCoins ==
  /\ phase = "stored"
  /\ coinCell.ok
  /\ parsedCoins' = parseCoinsFromNestedCell(coinCell.val)
  /\ phase' = "parsed"
  /\ UNCHANGED <<coins, coinCell, assetVars, rateVars, chainVars, moreVars>>

NextCoins == StoreCoins \/ ParseCoins

SpecCoins == InitCoins /\ [][NextCoins]_vars

(***************************************************************************)
(* SpecAssets: on a list of assets in any order, either one call of        *)
(* compare and equals on two of them, or the sort by compare followed by   *)
(* storeSortedAssetsNested on the sorted list and                          *)
(* parseAssetsFromNestedCell on the cell it returned.                      *)
(***************************************************************************)
InitAssets ==
  /\ phase = "input"
  /\ assets \in AssetInputs
  /\ cmp = NoCompare
  /\ sortedAssets = NoResult
  /\ assetCell = NoResult
  /\ parsedAssets = NoResult
  /\ CoinsIdle
  /\ RatesIdle
  /\ ChainIdle
  /\ MoreIdle

\* this.compare(other), this.equals(other) and other.compare(this)
Comparison(this, other) ==
  [called |-> TRUE, this |-> this, other |-> other,
   compare |-> AssetCompare(this, other),
   equals |-> AssetEquals(this, other),
   reverse |-> AssetCompare(other, this)]

CompareAssets(i, j) ==
  /\ phase = "input"
  /\ cmp' = Comparison(assets[i], assets[j])
  /\ phase' = "compared"
  /\ UNCHANGED <<assets, sortedAssets, assetCell, parsedAssets, coinVars, rateVars, chainVars, moreVars>>

SortAssets ==
  /\ phase = "input"
  /\ sortedAssets' = sortAssets(assets)
  /\ phase' = "sorted"
  /\ UNCHANGED <<assets, cmp, assetCell, parsedAssets, coinVars, rateVars, chainVars, moreVars>>

StoreAssets ==
  /\ phase = "sorted"
  /\ sortedAssets.ok
  /\ assetCell' = storeSortedAssetsNested(sortedAssets.val)
  /\ phase' = "stored"
  /\ UNCHANGED <<assets, cmp, sortedAssets, parsedAssets, coinVars, rateVars, chainVars, moreVars>>

ParseAssets ==
  /\ phase = "stored"
  /\ assetCell.ok
  /\ parsedAssets' = parseAssetsFromNestedCell(assetCell.val)
  /\ phase' = "parsed"
  /\ UNCHANGED <<assets, cmp, sortedAssets, assetCell, coinVars, rateVars, chainVars, moreVars>>

NextAssets ==
  \/ \E i, j \in 1..Len(assets) : CompareAssets(i, j)
  \/ SortAssets
  \/ StoreAssets
  \/ ParseAssets

SpecAssets == InitAssets /\ [][NextAssets]_vars

(***************************************************************************)
(* SpecRate: on an expiration and a list of allocations in any order,      *)
(* new RatePayload, its toCell and RatePayload.fromCell of that cell; or   *)
(* the same rates given in another order; or RatePayload.fromCell,         *)
(* RatePayload.fromJSON and SignedRate.fromCell on a cell or a JSON that   *)
(* another producer made of the rates in the order given; or one call of   *)
(* compare and equals on the assets of two of the rates.                   *)
(***************************************************************************)
InitRate ==
  /\ ChainIdle
  /\ MoreIdle
  /\ phase = "input"
  /\ rateExpiration \in Expirations
  /\ rateList \in RateInputs
  /\ ratePayload = NoResult
  /\ rateCell = NoResult
  /\ rateDecoded = NoResult
  /\ ratePermuted = NoOther
  /\ cmp = NoCompare
  /\ assets = <<>>
  /\ sortedAssets = NoResult
  /\ assetCell = NoResult
  /\ parsedAssets = NoResult
  /\ CoinsIdle

Construct ==
  /\ phase = "input"
  /\ ratePayload' = RatePayload(rateExpiration, rateList)
  /\ phase' = "built"
  /\ UNCHANGED <<rateExpiration, rateList, rateCell, rateDecoded, ratePermuted, coinVars, assetVars, chainVars, moreVars>>

ToCell ==
  /\ phase = "built"
  /\ ratePayload.ok
  /\ rateCell' = RatePayloadToCell(ratePayload.val)
  /\ phase' = "encoded"
  /\ UNCHANGED <<rateExpiration, rateList, ratePayload, rateDecoded, ratePermuted, coinVars, assetVars, chainVars, moreVars>>

FromCell ==
  /\ phase = "encoded"
  /\ rateCell.ok
  /\ rateDecoded' = RatePayloadFromCell(rateCell.val)
  /\ phase' = "decoded"
  /\ UNCHANGED <<rateExpiration, rateList, ratePayload, rateCell, ratePermuted, coinVars, assetVars, chainVars, moreVars>>

\* The list with the elements at i and j exchanged.
Swap(list, i, j) ==
  [k \in 1..Len(list) |-> IF k = i THEN list[j] ELSE IF k = j THEN list[i] ELSE list[k]]

\* new RatePayload, toCell and sign on the rates with two of them exchanged.
ConstructPermuted(i, j) ==
  /\ phase = "encoded"
  /\ \E p \in {RatePayload(rateExpiration, Swap(rateList, i, j))} :
       ratePermuted' = [made |-> TRUE, rates |-> Swap(rateList, i, j), payload |-> p,
                        cell |-> IF p.ok THEN RatePayloadToCell(p.val) ELSE NoResult,
                        signature |-> IF p.ok THEN RatePayloadSign(p.val, SecretKey)
                                      ELSE NoResult]
  /\ phase' = "permuted"
  /\ UNCHANGED <<rateExpiration, rateList, ratePayload, rateCell, rateDecoded, coinVars, assetVars, chainVars, moreVars>>

\* The cell of a producer that lays the rates out in the order given.
ForeignPayloadCell == RatePayloadToCell([expiration |-> rateExpiration, rates |-> rateList])

FromForeignCell ==
  /\ phase = "input"
  /\ \E c \in {ForeignPayloadCell} :
       /\ c.ok
       /\ rateCell' = c
       /\ rateDecoded' = RatePayloadFromCell(c.val)
  /\ phase' = "foreign"
  /\ UNCHANGED <<rateExpiration, rateList, ratePayload, ratePermuted, coinVars, assetVars, chainVars, moreVars>>

FromJSON ==
  /\ phase = "input"
  /\ rateDecoded' =
       RatePayloadFromJSON(RatePayloadToJSON([expiration |-> rateExpiration, rates |-> rateList]))
  /\ phase' = "json"
  /\ UNCHANGED <<rateExpiration, rateList, ratePayload, rateCell, ratePermuted, coinVars, assetVars, chainVars, moreVars>>

\* A chain of two nodes that another producer signed and laid out, each with
\* the rates in the order given.
ForeignChain ==
  LET node == [signature |-> [bytes |-> SIGNATURE_BYTES, digest |-> "foreign", key |-> "foreign"],
               payload |-> [expiration |-> rateExpiration, rates |-> rateList],
               nextSignedRate |-> None]
  IN [node EXCEPT !.nextSignedRate = Some(node)]

\* SignedRate.fromCell on its cell: rateDecoded is the chain or the error.
FromChainCell ==
  /\ phase = "input"
  /\ \E c \in {SignedRateToCell(ForeignChain)} :
       /\ c.ok
       /\ rateCell' = c
       /\ rateDecoded' = SignedRateFromCell(c.val)
  /\ phase' = "chain"
  /\ UNCHANGED <<rateExpiration, rateList, ratePayload, ratePermuted, coinVars, assetVars, chainVars, moreVars>>

CompareRates(i, j) ==
  /\ phase = "input"
  /\ cmp' = Comparison(rateList[i].asset, rateList[j].asset)
  /\ phase' = "compared"
  /\ UNCHANGED <<assets, sortedAssets, assetCell, parsedAssets, coinVars, rateVars, chainVars, moreVars>>

NextRate ==
  \/ Construct
  \/ ToCell
  \/ FromCell
  \/ \E i, j \in 1..Len(rateList) : i < j /\ ConstructPermuted(i, j)
  \/ FromForeignCell
  \/ FromJSON
  \/ FromChainCell
  \/ \E i, j \in 1..Len(rateList) : CompareRates(i, j)

SpecRate == InitRate /\ [][NextRate]_vars

(***************************************************************************)
(* Spec: calls of SignedRate.fromRates that may be in flight together.     *)
(* A call runs from its start, or from the settling of the promise it      *)
(* awaits, to its next await or to its end in one step, as a JavaScript    *)
(* job does; the steps of different calls interleave in any order. The     *)
(* chain a call resolved to is then laid out by toCell and read back by    *)
(* SignedRate.fromCell.                                                    *)
(***************************************************************************)
Init ==
  /\ phase = "calls"
  /\ ChainIdle
  /\ MoreIdle
  /\ CoinsIdle
  /\ AssetsIdle
  /\ RatesIdle

\* The largest index at most i of an element that is not undefined, or 0:
\* the loop goes down over the elements that "if (payload)" skips.
RECURSIVE nextPayload(_, _)
nextPayload(rates, i) ==
  IF i = 0 THEN 0
  ELSE IF rates[i] # None THEN i
  ELSE nextPayload(rates, i - 1)

\* What the signer was called with by payload.sign(key): nothing when toCell
\* throws before the call.
signerCalls(payload, key, i) ==
  LET c == RatePayloadToCell(payload)
  IN IF c.ok THEN <<[index |-> i, digest |-> CellHash(c.val), key |-> key.name]>> ELSE <<>>

\* A loop that starts the signing of the next two payloads together.
RunLoopTwoAtOnce(c, i, prev) ==
  LET j == nextPayload(chainRates[c], i)
      k == IF j = 0 THEN 0 ELSE nextPayload(chainRates[c], j - 1)
  IN /\ prevSignedRate' = [prevSignedRate EXCEPT ![c] = prev]
     /\ IF j = 0
        THEN /\ pc' = [pc EXCEPT ![c] = "resolved"]
             /\ chainResult' = [chainResult EXCEPT ![c] = Ok(prev)]
             /\ UNCHANGED <<loopIndex, pending, signCalls>>
        ELSE /\ pc' = [pc EXCEPT ![c] = "awaiting"]
             /\ loopIndex' = [loopIndex EXCEPT ![c] = j]
             /\ pending' = [pending EXCEPT ![c] =
                              RatePayloadSign(chainRates[c][j][1], chainKey[c])]
             /\ signCalls' = [signCalls EXCEPT ![c] =
                                @ \o signerCalls(chainRates[c][j][1], chainKey[c], j)
                                  \o (IF k = 0 THEN <<>>
                                      ELSE signerCalls(chainRates[c][k][1], chainKey[c], k))]
             /\ UNCHANGED chainResult

\* The loop of fromRates of call c from index i down, with prev the chain
\* made so far: it stops at the await of the next payload.sign, or returns.
RunLoop(c, i, prev) ==
  LET j == nextPayload(chainRates[c], i)
  IN /\ prevSignedRate' = [prevSignedRate EXCEPT ![c] = prev]
     /\ IF j = 0
        THEN /\ pc' = [pc EXCEPT ![c] = "resolved"]
             /\ chainResult' = [chainResult EXCEPT ![c] = Ok(prev)]
             /\ UNCHANGED <<loopIndex, pending, signCalls>>
        ELSE /\ pc' = [pc EXCEPT ![c] = "awaiting"]
             /\ loopIndex' = [loopIndex EXCEPT ![c] = j]
             /\ pending' = [pending EXCEPT ![c] =
                              RatePayloadSign(chainRates[c][j][1], chainKey[c])]
             /\ signCalls' = [signCalls EXCEPT ![c] =
                                @ \o signerCalls(chainRates[c][j][1], chainKey[c], j)]
             /\ UNCHANGED chainResult

\* fromRates without the check of the length of the array.
StartUnchecked(c, rates, key) ==
  /\ pc[c] = "idle"
  /\ chainRates' = [chainRates EXCEPT ![c] = rates]
  /\ chainKey' = [chainKey EXCEPT ![c] = key]
  /\ LET j == nextPayload(rates, Len(rates))
     IN IF j = 0
        THEN /\ pc' = [pc EXCEPT ![c] = "resolved"]
             /\ chainResult' = [chainResult EXCEPT ![c] = Ok(None)]
             /\ UNCHANGED <<loopIndex, prevSignedRate, pending, signCalls>>
        ELSE /\ pc' = [pc EXCEPT ![c] = "awaiting"]
             /\ loopIndex' = [loopIndex EXCEPT ![c] = j]
             /\ pending' = [pending EXCEPT ![c] = RatePayloadSign(rates[j][1], key)]
             /\ signCalls' = [signCalls EXCEPT ![c] = signerCalls(rates[j][1], key, j)]
             /\ UNCHANGED <<prevSignedRate, chainResult>>
  /\ UNCHANGED <<phase, chainCell, chainDecoded, coinVars, assetVars, rateVars, moreVars>>

\* SignedRate.fromRates(rates, key) up to its first await.
Start(c, rates, key) ==
  /\ pc[c] = "idle"
  /\ chainRates' = [chainRates EXCEPT ![c] = rates]
  /\ chainKey' = [chainKey EXCEPT ![c] = key]
  /\ IF Len(rates) = 0
     THEN /\ pc' = [pc EXCEPT ![c] = "rejected"]
          /\ chainResult' = [chainResult EXCEPT ![c] = Err("Rates array is empty")]
          /\ UNCHANGED <<loopIndex, prevSignedRate, pending, signCalls>>
     ELSE LET j == nextPayload(rates, Len(rates))
          IN IF j = 0
             THEN /\ pc' = [pc EXCEPT ![c] = "resolved"]
                  /\ chainResult' = [chainResult EXCEPT ![c] = Ok(None)]
                  /\ UNCHANGED <<loopIndex, prevSignedRate, pending, signCalls>>
             ELSE /\ pc' = [pc EXCEPT ![c] = "awaiting"]
                  /\ loopIndex' = [loopIndex EXCEPT ![c] = j]
                  /\ pending' = [pending EXCEPT ![c] = RatePayloadSign(rates[j][1], key)]
                  /\ signCalls' = [signCalls EXCEPT ![c] = signerCalls(rates[j][1], key, j)]
                  /\ UNCHANGED <<prevSignedRate, chainResult>>
  /\ UNCHANGED <<phase, chainCell, chainDecoded, coinVars, assetVars, rateVars, moreVars>>

\* A Resume whose chain made so far is one variable for all the calls, the
\* one the first call writes.
ResumeShared(c) ==
  /\ pc[c] = "awaiting"
  /\ IF ~pending[c].ok
     THEN /\ pc' = [pc EXCEPT ![c] = "rejected"]
          /\ chainResult' = [chainResult EXCEPT ![c] = Err(pending[c].err)]
          /\ UNCHANGED <<loopIndex, prevSignedRate, pending, signCalls>>
     ELSE RunLoop(c, loopIndex[c] - 1,
                  Some(SignedRate(pending[c].val, chainRates[c][loopIndex[c]][1],
                                  prevSignedRate["first"])))
  /\ UNCHANGED <<phase, chainRates, chainKey, chainCell, chainDecoded, coinVars, assetVars,
                 rateVars, moreVars>>

\* A Resume that goes on to the payload before when a signing has failed,
\* with the chain made so far.
ResumeSkipFailed(c) ==
  /\ pc[c] = "awaiting"
  /\ IF ~pending[c].ok
     THEN RunLoop(c, loopIndex[c] - 1, prevSignedRate[c])
     ELSE RunLoop(c, loopIndex[c] - 1,
                  Some(SignedRate(pending[c].val, chainRates[c][loopIndex[c]][1],
                                  prevSignedRate[c])))
  /\ UNCHANGED <<phase, chainRates, chainKey, chainCell, chainDecoded, coinVars, assetVars,
                 rateVars, moreVars>>

\* The awaited promise settles and the call goes on: it throws what the
\* promise was rejected with, or makes the node of the payload with the
\* signature and the chain made so far, and loops.
Resume(c) ==
  /\ pc[c] = "awaiting"
  /\ IF ~pending[c].ok
     THEN /\ pc' = [pc EXCEPT ![c] = "rejected"]
          /\ chainResult' = [chainResult EXCEPT ![c] = Err(pending[c].err)]
          /\ UNCHANGED <<loopIndex, prevSignedRate, pending, signCalls>>
     ELSE RunLoop(c, loopIndex[c] - 1,
                  Some(SignedRate(pending[c].val, chainRates[c][loopIndex[c]][1],
                                  prevSignedRate[c])))
  /\ UNCHANGED <<phase, chainRates, chainKey, chainCell, chainDecoded, coinVars, assetVars,
                 rateVars, moreVars>>

\* toCell() on the chain the call resolved to.
EncodeChain(c) ==
  /\ pc[c] = "resolved"
  /\ chainResult[c].val # None
  /\ chainCell' = [chainCell EXCEPT ![c] = SignedRateToCell(chainResult[c].val[1])]
  /\ pc' = [pc EXCEPT ![c] = "encoded"]
  /\ UNCHANGED <<phase, chainRates, chainKey, loopIndex, prevSignedRate, pending, signCalls,
                 chainResult, chainDecoded, coinVars, assetVars, rateVars, moreVars>>

\* SignedRate.fromCell on that cell.
DecodeChain(c) ==
  /\ pc[c] = "encoded"
  /\ chainCell[c].ok
  /\ chainDecoded' = [chainDecoded EXCEPT ![c] = SignedRateFromCell(chainCell[c].val)]
  /\ pc' = [pc EXCEPT ![c] = "decoded"]
  /\ UNCHANGED <<phase, chainRates, chainKey, loopIndex, prevSignedRate, pending, signCalls,
                 chainResult, chainCell, coinVars, assetVars, rateVars, moreVars>>

Next ==
  \/ \E c \in Calls, rates \in ChainInputs, key \in {SecretKey, ShortKey} : Start(c, rates, key)
  \/ \E c \in Calls : Resume(c)
  \/ \E c \in Calls : EncodeChain(c)
  \/ \E c \in Calls : DecodeChain(c)

Spec == Init /\ [][Next]_vars

(***************************************************************************)
(* SpecValue: on one asset and one value, toCell and Asset.fromCell of the *)
(* cell; the ID and Asset.fromID of it, or Asset.fromID of a text from     *)
(* elsewhere; new Allocation of the asset and the value.                   *)
(***************************************************************************)
InitValue ==
  /\ phase = "input"
  /\ oneAsset \in OneAssets
  /\ oneAmount \in AmountInputs
  /\ oneCell = NoResult
  /\ oneFromCell = NoResult
  /\ oneID = NoText
  /\ oneFromID = NoResult
  /\ oneAllocation = NoResult
  /\ CoinsIdle
  /\ AssetsIdle
  /\ RatesIdle
  /\ ChainIdle
  /\ NormIdle
  /\ DecodeIdle
  /\ JsonIdle
  /\ BuildIdle
  /\ WalkIdle

AssetToCellCall ==
  /\ phase = "input"
  /\ oneCell' = AssetToCell(oneAsset)
  /\ phase' = "cell"
  /\ UNCHANGED <<oneAsset, oneAmount, oneFromCell, oneID, oneFromID, oneAllocation,
                 coinVars, assetVars, rateVars, chainVars, normVars, decodeVars,
                 jsonVars, buildVars, walkVars>>

AssetFromCellCall ==
  /\ phase = "cell"
  /\ oneCell.ok
  /\ oneFromCell' = AssetFromCell(oneCell.val)
  /\ phase' = "fromCell"
  /\ UNCHANGED <<oneAsset, oneAmount, oneCell, oneID, oneFromID, oneAllocation,
                 coinVars, assetVars, rateVars, chainVars, normVars, decodeVars,
                 jsonVars, buildVars, walkVars>>

AssetIDCall ==
  /\ phase = "input"
  /\ oneID' = AssetID(oneAsset)
  /\ phase' = "ID"
  /\ UNCHANGED <<oneAsset, oneAmount, oneCell, oneFromCell, oneFromID, oneAllocation,
                 coinVars, assetVars, rateVars, chainVars, normVars, decodeVars,
                 jsonVars, buildVars, walkVars>>

AssetFromIDCall ==
  /\ phase = "ID"
  /\ oneFromID' = AssetFromID(oneID)
  /\ phase' = "fromID"
  /\ UNCHANGED <<oneAsset, oneAmount, oneCell, oneFromCell, oneID, oneAllocation,
                 coinVars, assetVars, rateVars, chainVars, normVars, decodeVars,
                 jsonVars, buildVars, walkVars>>

AssetFromForeignID(id) ==
  /\ phase = "input"
  /\ oneID' = id
  /\ oneFromID' = AssetFromID(id)
  /\ phase' = "foreignID"
  /\ UNCHANGED <<oneAsset, oneAmount, oneCell, oneFromCell, oneAllocation,
                 coinVars, assetVars, rateVars, chainVars, normVars, decodeVars,
                 jsonVars, buildVars, walkVars>>

NewAllocation ==
  /\ phase = "input"
  /\ oneAllocation' = AllocationNew(oneAsset, oneAmount)
  /\ phase' = "allocation"
  /\ UNCHANGED <<oneAsset, oneAmount, oneCell, oneFromCell, oneID, oneFromID,
                 coinVars, assetVars, rateVars, chainVars, normVars, decodeVars,
                 jsonVars, buildVars, walkVars>>

NextValue ==
  \/ AssetToCellCall
  \/ AssetFromCellCall
  \/ AssetIDCall
  \/ AssetFromIDCall
  \/ \E id \in ForeignIDs : AssetFromForeignID(id)
  \/ NewAllocation

SpecValue == InitValue /\ [][NextValue]_vars

(***************************************************************************)
(* SpecNormalize: one call of normalize on one allocation or an array of   *)
(* allocations in any order and a list of target assets in any order.      *)
(***************************************************************************)
InitNormalize ==
  /\ phase = "input"
  /\ normAlloc \in AllocInputs
  /\ normTarget \in TargetInputs
  /\ normalized = NoResult
  /\ CoinsIdle
  /\ AssetsIdle
  /\ RatesIdle
  /\ ChainIdle
  /\ ValueIdle
  /\ DecodeIdle
  /\ JsonIdle
  /\ BuildIdle
  /\ WalkIdle

Normalize ==
  /\ phase = "input"
  /\ normalized' = normalize(normAlloc, normTarget)
  /\ phase' = "normalized"
  /\ UNCHANGED <<normAlloc, normTarget, coinVars, assetVars, rateVars, chainVars,
                 valueVars, decodeVars,
                 jsonVars, buildVars, walkVars>>

NextNormalize == Normalize

SpecNormalize == InitNormalize /\ [][NextNormalize]_vars

(***************************************************************************)
(* SpecDecode: a cell received from elsewhere, sound or not, is given to   *)
(* the decoder it is for.                                                  *)
(***************************************************************************)
InitDecode ==
  /\ phase = "input"
  /\ wire \in WireInputs
  /\ wireCell = WireCell(wire).val
  /\ wireDecoded = NoResult
  /\ CoinsIdle
  /\ AssetsIdle
  /\ RatesIdle
  /\ ChainIdle
  /\ ValueIdle
  /\ NormIdle
  /\ JsonIdle
  /\ BuildIdle
  /\ WalkIdle

DecodeAsset ==
  /\ phase = "input"
  /\ wire.kind = "asset"
  /\ wireDecoded' = AssetFromCell(wireCell)
  /\ phase' = "decoded"
  /\ UNCHANGED <<wire, wireCell, coinVars, assetVars, rateVars, chainVars, valueVars, normVars,
                 jsonVars, buildVars, walkVars>>

DecodeAssets ==
  /\ phase = "input"
  /\ wire.kind = "assets"
  /\ wireDecoded' = parseAssetsFromNestedCell(wireCell)
  /\ phase' = "decoded"
  /\ UNCHANGED <<wire, wireCell, coinVars, assetVars, rateVars, chainVars, valueVars, normVars,
                 jsonVars, buildVars, walkVars>>

DecodePayload ==
  /\ phase = "input"
  /\ wire.kind = "payload"
  /\ wireDecoded' = RatePayloadFromCell(wireCell)
  /\ phase' = "decoded"
  /\ UNCHANGED <<wire, wireCell, coinVars, assetVars, rateVars, chainVars, valueVars, normVars,
                 jsonVars, buildVars, walkVars>>

DecodeSignedRate ==
  /\ phase = "input"
  /\ wire.kind = "chain"
  /\ wireDecoded' = SignedRateFromCell(wireCell)
  /\ phase' = "decoded"
  /\ UNCHANGED <<wire, wireCell, coinVars, assetVars, rateVars, chainVars, valueVars, normVars,
                 jsonVars, buildVars, walkVars>>

NextDecode ==
  \/ DecodeAsset
  \/ DecodeAssets
  \/ DecodePayload
  \/ DecodeSignedRate

SpecDecode == InitDecode /\ [][NextDecode]_vars

(***************************************************************************)
(* SpecJSON: toJSON() of an Asset, an Allocation, a RatePayload or a       *)
(* SignedRate, then fromJSON of what it returned.                          *)
(***************************************************************************)
InitJSON ==
  /\ phase = "input"
  /\ jsonSubject \in JsonSubjects
  /\ jsonValue = SubjectValue(jsonSubject)
  /\ jsonText = NoResult
  /\ jsonBack = NoResult
  /\ CoinsIdle
  /\ AssetsIdle
  /\ RatesIdle
  /\ ChainIdle
  /\ ValueIdle
  /\ NormIdle
  /\ DecodeIdle
  /\ BuildIdle
  /\ WalkIdle

SubjectToJSON ==
  /\ phase = "input"
  /\ jsonValue.ok
  /\ jsonText' = Ok(CASE jsonSubject.kind = "asset" -> AssetToJSON(jsonValue.val)
                      [] jsonSubject.kind = "allocation" -> AllocationToJSON(jsonValue.val)
                      [] jsonSubject.kind = "payload" -> RatePayloadToJSON(jsonValue.val)
                      [] jsonSubject.kind = "chain" -> SignedRateToJSON(jsonValue.val))
  /\ phase' = "json"
  /\ UNCHANGED <<jsonSubject, jsonValue, jsonBack, coinVars, assetVars, rateVars, chainVars,
                 valueVars, normVars, decodeVars, buildVars, walkVars>>

SubjectFromJSON ==
  /\ phase = "json"
  /\ jsonBack' = CASE jsonSubject.kind = "asset" -> Ok(AssetFromJSON(jsonText.val))
                   [] jsonSubject.kind = "allocation" -> AllocationFromJSON(jsonText.val)
                   [] jsonSubject.kind = "payload" -> RatePayloadFromJSON(jsonText.val)
                   [] jsonSubject.kind = "chain" -> SignedRateFromJSON(jsonText.val)
  /\ phase' = "back"
  /\ UNCHANGED <<jsonSubject, jsonValue, jsonText, coinVars, assetVars, rateVars, chainVars,
                 valueVars, normVars, decodeVars, buildVars, walkVars>>

NextJSON ==
  \/ SubjectToJSON
  \/ SubjectFromJSON

SpecJSON == InitJSON /\ [][NextJSON]_vars

(***************************************************************************)
(* SpecBuild: the encoders, each on the values it is given: a list of      *)
(* amounts, a list of assets, an asset, a payload, a chain.                *)
(***************************************************************************)
InitBuild ==
  /\ phase = "input"
  /\ made \in BuiltInputs
  /\ madeValue = BuiltValue(made)
  /\ madeCell = NoResult
  /\ CoinsIdle
  /\ AssetsIdle
  /\ RatesIdle
  /\ ChainIdle
  /\ ValueIdle
  /\ NormIdle
  /\ DecodeIdle
  /\ JsonIdle
  /\ WalkIdle

\* storeCoinsNested(coins)
BuildCoins ==
  /\ phase = "input"
  /\ made.kind = "coins"
  /\ madeCell' = storeCoinsNested(madeValue.val)
  /\ phase' = "built"
  /\ UNCHANGED <<made, madeValue, coinVars, assetVars, rateVars, chainVars, valueVars,
                 normVars, decodeVars, jsonVars, walkVars>>

\* storeSortedAssetsNested(assets)
BuildAssets ==
  /\ phase = "input"
  /\ made.kind = "assets"
  /\ madeCell' = storeSortedAssetsNested(madeValue.val)
  /\ phase' = "built"
  /\ UNCHANGED <<made, madeValue, coinVars, assetVars, rateVars, chainVars, valueVars,
                 normVars, decodeVars, jsonVars, walkVars>>

\* asset.toCell()
BuildAsset ==
  /\ phase = "input"
  /\ made.kind = "asset"
  /\ madeCell' = AssetToCell(madeValue.val)
  /\ phase' = "built"
  /\ UNCHANGED <<made, madeValue, coinVars, assetVars, rateVars, chainVars, valueVars,
                 normVars, decodeVars, jsonVars, walkVars>>

\* payload.toCell(), of a payload the constructor returned
BuildPayload ==
  /\ phase = "input"
  /\ made.kind = "payload"
  /\ madeValue.ok
  /\ madeCell' = RatePayloadToCell(madeValue.val)
  /\ phase' = "built"
  /\ UNCHANGED <<made, madeValue, coinVars, assetVars, rateVars, chainVars, valueVars,
                 normVars, decodeVars, jsonVars, walkVars>>

\* signedRate.toCell(), of a chain the constructors returned
BuildChain ==
  /\ phase = "input"
  /\ made.kind = "chain"
  /\ madeValue.ok
  /\ madeCell' = SignedRateToCell(madeValue.val)
  /\ phase' = "built"
  /\ UNCHANGED <<made, madeValue, coinVars, assetVars, rateVars, chainVars, valueVars,
                 normVars, decodeVars, jsonVars, walkVars>>

NextBuild ==
  \/ BuildCoins
  \/ BuildAssets
  \/ BuildAsset
  \/ BuildPayload
  \/ BuildChain

SpecBuild == InitBuild /\ [][NextBuild]_vars

(***************************************************************************)
(* SpecWalk: the loops of parseCoinsFromNestedCell and                     *)
(* parseAssetsFromNestedCell, and the recursions of SignedRate.fromCell,   *)
(* storeCoinsNested and storeSortedAssetsNested, one step for each test of *)
(* a loop, each iteration of a for loop, each call and each return.        *)
(***************************************************************************)
InitWalk ==
  /\ phase = "walk"
  /\ walk \in WalkInputs
  /\ walkCell = WalkCell(walk)
  /\ walkSlice = IF walk.kind \in {"storeCoins", "storeAssets"} THEN <<>>
                 ELSE beginParse(WalkCell(walk))
  /\ walkItems = IF walk.kind \in {"storeCoins", "storeAssets"} THEN WalkStored(walk)
                 ELSE <<>>
  /\ walkI = 0
  /\ walkIterations = 0
  /\ walkMoves = 0
  /\ walkPc = CASE walk.kind \in {"coins", "assets"} -> "while"
                [] walk.kind = "chain" -> "node"
                [] OTHER -> "store"
  /\ walkResult = NoResult
  /\ CoinsIdle
  /\ AssetsIdle
  /\ RatesIdle
  /\ ChainIdle
  /\ ValueIdle
  /\ NormIdle
  /\ DecodeIdle
  /\ JsonIdle
  /\ BuildIdle

\* while (currentCell.remainingBits > 0), while (sc.remainingRefs > 0)
WhileTest ==
  /\ walkPc = "while"
  /\ IF (walk.kind = "coins" /\ remainingBits(walkSlice) > 0)
        \/ (walk.kind = "assets" /\ remainingRefs(walkSlice) > 0)
     THEN /\ walkPc' = "for"
          /\ walkI' = 0
          /\ walkIterations' = walkIterations + 1
          /\ UNCHANGED walkResult
     ELSE /\ walkPc' = "done"
          /\ walkResult' = Ok(walkItems)
          /\ UNCHANGED <<walkI, walkIterations>>
  /\ UNCHANGED <<phase, walk, walkCell, walkSlice, walkItems, walkMoves, coinVars, assetVars,
                 rateVars, chainVars, valueVars, normVars, decodeVars, jsonVars, buildVars>>

\* The test of the for loop and one iteration of it: coins.push(loadCoins()),
\* assets.push(Asset.fromCell(sc.loadRef()))
ForStep ==
  /\ walkPc = "for"
  /\ IF walk.kind = "coins"
     THEN IF walkI < MAX_COINS_PER_CELL /\ remainingBits(walkSlice) > 0
          THEN \E r \in {loadCoins(walkSlice)} :
                 IF r.ok
                 THEN /\ walkItems' = Append(walkItems, r.val)
                      /\ walkSlice' = r.rest
                      /\ walkI' = walkI + 1
                      /\ UNCHANGED <<walkPc, walkResult>>
                 ELSE /\ walkPc' = "failed"
                      /\ walkResult' = Err(r.err)
                      /\ UNCHANGED <<walkItems, walkSlice, walkI>>
          ELSE /\ walkPc' = "next"
               /\ UNCHANGED <<walkItems, walkSlice, walkI, walkResult>>
     ELSE IF walkI < MAX_ASSETS_PER_CELL /\ remainingRefs(walkSlice) > 0
          THEN \E a \in {AssetFromCell(loadRef(walkSlice).val)} :
                 IF a.ok
                 THEN /\ walkItems' = Append(walkItems, a.val)
                      /\ walkSlice' = loadRef(walkSlice).rest
                      /\ walkI' = walkI + 1
                      /\ UNCHANGED <<walkPc, walkResult>>
                 ELSE /\ walkPc' = "failed"
                      /\ walkResult' = Err(a.err)
                      /\ UNCHANGED <<walkItems, walkSlice, walkI>>
          ELSE /\ walkPc' = "next"
               /\ UNCHANGED <<walkItems, walkSlice, walkI, walkResult>>
  /\ UNCHANGED <<phase, walk, walkCell, walkIterations, walkMoves, coinVars, assetVars,
                 rateVars, chainVars, valueVars, normVars, decodeVars, jsonVars, buildVars>>

\* After the for loop: the amounts go on in the cell of the first reference
\* when there is one; the assets are done when no reference is left, and go
\* on in the cell of the next reference otherwise.
NextCell ==
  /\ walkPc = "next"
  /\ IF remainingRefs(walkSlice) > 0
     THEN /\ walkSlice' = beginParse(loadRef(walkSlice).val)
          /\ walkMoves' = walkMoves + 1
          /\ walkPc' = "while"
          /\ UNCHANGED walkResult
     ELSE IF walk.kind = "coins"
          THEN /\ walkPc' = "while"
               /\ UNCHANGED <<walkSlice, walkMoves, walkResult>>
          ELSE /\ walkPc' = "done"
               /\ walkResult' = Ok(walkItems)
               /\ UNCHANGED <<walkSlice, walkMoves>>
  /\ UNCHANGED <<phase, walk, walkCell, walkItems, walkI, walkIterations, coinVars,
                 assetVars, rateVars, chainVars, valueVars, normVars, decodeVars, jsonVars,
                 buildVars>>

\* The chain of the nodes read, in the order read, before the chain next.
RECURSIVE LinkNodes(_, _)
LinkNodes(nodes, next) ==
  IF nodes = <<>> THEN next
  ELSE LinkNodes(SubSeq(nodes, 1, Len(nodes) - 1),
                 Some(SignedRate(nodes[Len(nodes)][1], nodes[Len(nodes)][2], next)))

\* One call of SignedRate.fromCell up to its recursive call, or, in the
\* last node, to its return and the returns of the calls that wait for it.
NodeStep ==
  /\ walkPc = "node"
  /\ \E signature \in {loadBuffer64(walkSlice)} :
       IF ~signature.ok
       THEN /\ walkPc' = "failed"
            /\ walkResult' = Err(signature.err)
            /\ UNCHANGED <<walkSlice, walkItems, walkMoves>>
       ELSE \E payloadRef \in {loadRef(signature.rest)} :
         IF ~payloadRef.ok
         THEN /\ walkPc' = "failed"
              /\ walkResult' = Err(payloadRef.err)
              /\ UNCHANGED <<walkSlice, walkItems, walkMoves>>
         ELSE \E payload \in {RatePayloadFromCell(payloadRef.val)} :
           IF ~payload.ok
           THEN /\ walkPc' = "failed"
                /\ walkResult' = Err(payload.err)
                /\ UNCHANGED <<walkSlice, walkItems, walkMoves>>
           ELSE \E nextSignedRateCell \in {loadMaybeRef(payloadRef.rest)} :
             IF ~nextSignedRateCell.ok
             THEN /\ walkPc' = "failed"
                  /\ walkResult' = Err(nextSignedRateCell.err)
                  /\ UNCHANGED <<walkSlice, walkItems, walkMoves>>
             ELSE IF nextSignedRateCell.val = None
                  THEN /\ walkPc' = "done"
                       /\ walkItems' = Append(walkItems, <<signature.val, payload.val>>)
                       /\ walkResult' =
                            Ok(LinkNodes(Append(walkItems, <<signature.val, payload.val>>),
                                         None)[1])
                       /\ UNCHANGED <<walkSlice, walkMoves>>
                  ELSE /\ walkItems' = Append(walkItems, <<signature.val, payload.val>>)
                       /\ walkSlice' = beginParse(nextSignedRateCell.val[1])
                       /\ walkMoves' = walkMoves + 1
                       /\ UNCHANGED <<walkPc, walkResult>>
  /\ UNCHANGED <<phase, walk, walkCell, walkI, walkIterations, coinVars, assetVars, rateVars,
                 chainVars, valueVars, normVars, decodeVars, jsonVars, buildVars>>

\* storeCoinsNested(coins), storeSortedAssetsNested(assets) and their
\* recursive calls on the remaining items: beginCell()
StoreCall ==
  /\ walkPc = "store"
  /\ walkSlice' = <<beginCell>> \o walkSlice
  /\ walkI' = 0
  /\ walkMoves' = walkMoves + 1
  /\ walkPc' = "layer"
  /\ UNCHANGED <<phase, walk, walkCell, walkItems, walkIterations, walkResult, coinVars,
                 assetVars, rateVars, chainVars, valueVars, normVars, decodeVars, jsonVars,
                 buildVars>>

\* The items a cell takes.
PerCell == IF walk.kind = "storeCoins" THEN MAX_COINS_PER_CELL ELSE MAX_ASSETS_PER_CELL

\* A store whose recursive call is given all the items again.
StoreItemAgain ==
  /\ walkPc = "layer"
  /\ IF walkI < Min(Len(walkItems), PerCell)
     THEN \E builder \in {IF walk.kind = "storeCoins"
                          THEN storeCoins(Head(walkSlice), walkItems[walkI + 1])
                          ELSE storeRef(Head(walkSlice), AssetToCell(walkItems[walkI + 1]))} :
            IF builder.err # ""
            THEN /\ walkPc' = "failed"
                 /\ walkResult' = Err(builder.err)
                 /\ UNCHANGED <<walkSlice, walkItems, walkI, walkIterations>>
            ELSE /\ walkSlice' = <<builder>> \o Tail(walkSlice)
                 /\ walkI' = walkI + 1
                 /\ walkIterations' = walkIterations + 1
                 /\ UNCHANGED <<walkItems, walkPc, walkResult>>
     ELSE IF Len(walkItems) > 0
          THEN /\ walkPc' = "store"
               /\ UNCHANGED <<walkSlice, walkItems, walkI, walkIterations, walkResult>>
          ELSE /\ walkResult' = endCell(Head(walkSlice))
               /\ walkSlice' = Tail(walkSlice)
               /\ walkPc' = "return"
               /\ UNCHANGED <<walkItems, walkI, walkIterations>>
  /\ UNCHANGED <<phase, walk, walkCell, walkMoves, coinVars, assetVars, rateVars, chainVars,
                 valueVars, normVars, decodeVars, jsonVars, buildVars>>

\* One iteration of the for loop over the current layer: storeCoins(value),
\* storeRef(asset.toCell()); after the loop, the recursive call on the
\* remaining items when there are some, and endCell() when there are none.
StoreItem ==
  /\ walkPc = "layer"
  /\ IF walkI < Min(Len(walkItems), PerCell)
     THEN \E builder \in {IF walk.kind = "storeCoins"
                          THEN storeCoins(Head(walkSlice), walkItems[walkI + 1])
                          ELSE storeRef(Head(walkSlice), AssetToCell(walkItems[walkI + 1]))} :
            IF builder.err # ""
            THEN /\ walkPc' = "failed"
                 /\ walkResult' = Err(builder.err)
                 /\ UNCHANGED <<walkSlice, walkItems, walkI, walkIterations>>
            ELSE /\ walkSlice' = <<builder>> \o Tail(walkSlice)
                 /\ walkI' = walkI + 1
                 /\ walkIterations' = walkIterations + 1
                 /\ UNCHANGED <<walkItems, walkPc, walkResult>>
     ELSE IF Len(walkItems) > PerCell
          THEN /\ walkItems' = SubSeq(walkItems, PerCell + 1, Len(walkItems))
               /\ walkPc' = "store"
               /\ UNCHANGED <<walkSlice, walkI, walkIterations, walkResult>>
          ELSE /\ walkResult' = endCell(Head(walkSlice))
               /\ walkSlice' = Tail(walkSlice)
               /\ walkPc' = "return"
               /\ UNCHANGED <<walkItems, walkI, walkIterations>>
  /\ UNCHANGED <<phase, walk, walkCell, walkMoves, coinVars, assetVars, rateVars, chainVars,
                 valueVars, normVars, decodeVars, jsonVars, buildVars>>

\* The return of a call of a store: the function returns the cell when
\* the call was the outermost, and the caller stores the reference to the
\* cell and ends its own cell otherwise.
StoreReturn ==
  /\ walkPc = "return"
  /\ IF walkSlice = <<>>
     THEN /\ walkPc' = "done"
          /\ UNCHANGED <<walkSlice, walkResult>>
     ELSE /\ walkResult' = endCell(storeRef(Head(walkSlice), walkResult))
          /\ walkSlice' = Tail(walkSlice)
          /\ UNCHANGED walkPc
  /\ UNCHANGED <<phase, walk, walkCell, walkItems, walkI, walkIterations, walkMoves,
                 coinVars, assetVars, rateVars, chainVars, valueVars, normVars, decodeVars,
                 jsonVars, buildVars>>

NextWalk ==
  \/ WhileTest
  \/ ForStep
  \/ NextCell
  \/ NodeStep
  \/ StoreCall
  \/ StoreItem
  \/ StoreReturn

\* A function that has been called runs on until it returns or throws.
SpecWalk == InitWalk /\ [][NextWalk]_vars /\ WF_vars(NextWalk)

(***************************************************************************)
(* The claims.                                                             *)
(***************************************************************************)
Sign(n) == IF n < 0 THEN -1 ELSE IF n > 0 THEN 1 ELSE 0

\* How many elements of the sequence s satisfy Test.
Count(s, Test(_)) == Cardinality({i \in 1..Len(s) : Test(s[i])})

\* Two sequences hold the same elements the same number of times.
SameElements(s, t) ==
  /\ Len(s) = Len(t)
  /\ \A i \in 1..Len(s) :
       Cardinality({j \in 1..Len(s) : s[j] = s[i]})
         = Cardinality({j \in 1..Len(t) : t[j] = s[i]})

\* C1 as stated: for every sequence of non-negative amounts, storeCoinsNested
\* returns a cell and parseCoinsFromNestedCell on it returns the sequence.
C1_RoundTripOfAnyAmounts ==
  /\ phase = "stored" => coinCell.ok
  /\ phase = "parsed" => parsedCoins = Ok(coins)

\* C1, amended: for every sequence of amounts that are each below 2^120 (at
\* most 15 bytes, the range of a Coins field), of every length,
\* parseCoinsFromNestedCell(storeCoinsNested(xs)) returns xs: same length, same
\* values, same order; the empty sequence gives one cell with no bits and no
\* reference, which decodes to the empty sequence.
C1_CoinsRoundTrip ==
  /\ (phase = "stored" /\ \A i \in 1..Len(coins) : FitsCoins(coins[i])) => coinCell.ok
  /\ phase = "parsed" => parsedCoins = Ok(coins)
  /\ (phase # "input" /\ coins = <<>>) => coinCell = Ok([bits |-> <<>>, refs |-> <<>>])

\* A round trip of 15 coins of three different values, over three cells.
C1_Witness ==
  /\ phase = "parsed"
  /\ Len(coins) = 15
  /\ Cardinality({coins[i] : i \in 1..15}) = 3
  /\ parsedCoins = Ok(coins)
  /\ Len(coinCell.val.refs) = 1
  /\ Len(coinCell.val.refs[1].refs) = 1

\* C2: for every sequence of assets in asset order,
\* parseAssetsFromNestedCell(storeSortedAssetsNested(xs)) returns a sequence
\* of the same length whose i-th asset equals xs[i].
C2_AssetsRoundTrip ==
  /\ phase = "stored" => assetCell.ok
  /\ phase = "parsed" => parsedAssets = Ok(sortedAssets.val)

\* C8: whenever compare does not throw, what it returns is -1, 0 or 1.
C8_CompareReturnsSign ==
  (phase = "compared" /\ cmp.compare.ok) => cmp.compare.val \in {-1, 0, 1}

IsNativeOrToken(a) == a.type \in {TON, JETTON}

\* The hash that orders an asset among those of its tag.
HashKey(a) == IF a.type = JETTON THEN AddressCellHash(a.jettonMaster) ELSE 0

\* The sign of (tag, hash) of a against (tag, hash) of b, lexicographically.
LexSign(a, b) ==
  IF a.type # b.type THEN (IF a.type < b.type THEN -1 ELSE 1)
  ELSE IF HashKey(a) < HashKey(b) THEN -1
  ELSE IF HashKey(a) > HashKey(b) THEN 1 ELSE 0

\* C9: on Native and Token assets compare does not throw and its sign is
\* that of (tag, hash) compared lexicographically; it is antisymmetric on
\* Tokens of distinct addresses; it returns 0 exactly on the same asset; and
\* the sort by compare of a list of Native and Token assets returns the same
\* assets with every Native before every Token and the Tokens in increasing
\* order of hash.
C9_CompareTotalOrder ==
  /\ (phase = "compared" /\ IsNativeOrToken(cmp.this) /\ IsNativeOrToken(cmp.other)) =>
       /\ cmp.compare.ok
       /\ Sign(cmp.compare.val) = LexSign(cmp.this, cmp.other)
       /\ (cmp.compare.val = 0) <=> (cmp.this = cmp.other)
       /\ (cmp.this.type = JETTON /\ cmp.other.type = JETTON /\ cmp.this # cmp.other) =>
            (cmp.reverse.ok /\ cmp.compare.val = -cmp.reverse.val)
  /\ (phase = "sorted" /\ \A i \in 1..Len(assets) : IsNativeOrToken(assets[i])) =>
       /\ sortedAssets.ok
       /\ SameElements(sortedAssets.val, assets)
       /\ \A i, j \in 1..Len(assets) :
            i < j => /\ sortedAssets.val[i].type <= sortedAssets.val[j].type
                     /\ HashKey(sortedAssets.val[i]) <= HashKey(sortedAssets.val[j])

\* The sort of [tston, stton, ton] of the repository's test, continued
\* periodically, puts ton first and then stton before tston.
C9_Witness ==
  /\ phase = "sorted"
  /\ Len(assets) >= 3
  /\ assets[1] = AssetJetton(tston)
  /\ assets[2] = AssetJetton(stton)
  /\ assets[3] = AssetTon
  /\ sortedAssets.ok
  /\ sortedAssets.val[1] = AssetTon
  /\ sortedAssets.val[Len(assets) - 1] = AssetJetton(stton)
  /\ sortedAssets.val[Len(assets)] = AssetJetton(tston)

\* C3: for every payload the constructor built, RatePayload.fromCell of its
\* toCell has the same expiration and, position by position, the same asset
\* and amount as the payload's sorted rates.
C3_PayloadCellRoundTrip ==
  /\ (phase = "encoded" /\ FitsUint32(rateExpiration)) => rateCell.ok
  /\ phase = "decoded" =>
       /\ rateDecoded.ok
       /\ rateDecoded.val.expiration = rateExpiration
       /\ rateDecoded.val.rates = ratePayload.val.rates

\* The rates are in asset order: compare of an earlier asset with a later
\* one does not throw and is not positive.
RatesSorted(rs) ==
  \A i, j \in 1..Len(rs) :
    i < j => LET c == AssetCompare(rs[i].asset, rs[j].asset) IN c.ok /\ c.val <= 0

\* C6: the rates of every payload are in asset order, whether the payload
\* comes from the constructor, on the rates in the order given or in another
\* order, from RatePayload.fromCell on the cell of toCell or on a cell laid out
\* in the order given, from RatePayload.fromJSON of a JSON in the order given,
\* or is one of the payloads of a chain that SignedRate.fromCell decoded.
C6_RatesSortedFromEveryFactory ==
  /\ ratePayload.ok => RatesSorted(ratePayload.val.rates)
  /\ (ratePermuted.made /\ ratePermuted.payload.ok) =>
       RatesSorted(ratePermuted.payload.val.rates)
  /\ (phase \in {"decoded", "foreign", "json"} /\ rateDecoded.ok) =>
       RatesSorted(rateDecoded.val.rates)
  /\ (phase = "chain" /\ rateDecoded.ok) =>
       /\ RatesSorted(rateDecoded.val.payload.rates)
       /\ RatesSorted(rateDecoded.val.nextSignedRate[1].payload.rates)

\* A chain whose cells hold [tston, ton, ...] in that order decodes to
\* payloads that start with ton.
C6_Witness ==
  /\ phase = "chain"
  /\ Len(rateList) >= 3
  /\ rateList[1].asset = AssetJetton(tston)
  /\ rateList[2].asset = AssetTon
  /\ rateDecoded.ok
  /\ rateDecoded.val.payload.rates[1].asset = AssetTon
  /\ rateDecoded.val.nextSignedRate[1].payload.rates[1].asset = AssetTon
  /\ rateDecoded.val.payload.rates[Len(rateList)].asset = AssetJetton(tston)

\* No asset is in two of the rates.
DistinctAssets(rs) == \A i, j \in 1..Len(rs) : i # j => rs[i].asset # rs[j].asset

\* C7: for rates of pairwise distinct assets, the constructor on the rates
\* with two of them exchanged gives the same payload or the same error, and
\* toCell and sign on it give the same cell and the same signed digest, or
\* the same error. Every permutation is a sequence of such exchanges.
C7_EncodingIndependentOfOrder ==
  (phase = "permuted" /\ DistinctAssets(rateList)) =>
    /\ ratePermuted.payload = ratePayload
    /\ ratePermuted.cell = rateCell
    /\ ratePermuted.signature = RatePayloadSign(ratePayload.val, SecretKey)
    /\ rateCell.ok =>
         /\ ratePermuted.signature.ok
         /\ ratePermuted.signature.val.digest = CellHash(rateCell.val)

C7_Witness ==
  /\ phase = "permuted"
  /\ Len(rateList) = 3
  /\ DistinctAssets(rateList)
  /\ ratePermuted.rates # rateList
  /\ ratePermuted.rates[1] = rateList[3]
  /\ ratePayload.ok
  /\ ratePayload.val.rates # rateList
  /\ rateCell.ok
  /\ ratePermuted.cell = rateCell

IsExtraCurrency(a) == a.type = EXTRA_CURRENCY

ExtraCurrencyCount(rs) == Count(rs, LAMBDA r : IsExtraCurrency(r.asset))

UnsupportedComparison == "Extra currency asset is not supported yet"

\* C10: compare and equals on two ExtraCurrency assets, of equal or different
\* ids, throw the unsupported-comparison error; on assets of different tags
\* neither throws. The constructor on rates with two or more ExtraCurrency
\* assets returns no payload, and on an expiration its schema takes the error
\* is that one; on rates with at most one ExtraCurrency and such an
\* expiration it returns a payload with the rates sorted.
C10_ExtraCurrencyComparison ==
  /\ (phase = "compared" /\ IsExtraCurrency(cmp.this) /\ IsExtraCurrency(cmp.other)) =>
       /\ cmp.compare = Err(UnsupportedComparison)
       /\ cmp.equals = Err(UnsupportedComparison)
  /\ (phase = "compared" /\ cmp.this.type # cmp.other.type) =>
       cmp.compare.ok /\ cmp.equals.ok
  /\ (phase = "built" /\ ExtraCurrencyCount(rateList) >= 2) =>
       /\ ~ratePayload.ok
       /\ NumIsPositive(rateExpiration) => ratePayload = Err(UnsupportedComparison)
  /\ (phase = "built" /\ ExtraCurrencyCount(rateList) <= 1 /\ NumIsPositive(rateExpiration)) =>
       /\ ratePayload.ok
       /\ RatesSorted(ratePayload.val.rates)
       /\ SameElements(ratePayload.val.rates, rateList)

\* Rates with the extra currencies 1 and -1 and ton between them: the
\* constructor throws.
C10_Witness ==
  /\ phase = "built"
  /\ Len(rateList) = 3
  /\ rateList[1].asset = AssetExtraCurrency(Num(1))
  /\ rateList[2].asset = AssetTon
  /\ rateList[3].asset = AssetExtraCurrency(Num(-1))
  /\ ratePayload = Err(UnsupportedComparison)

\* The payloads of the nodes of a chain, from its head along nextSignedRate;
\* of no chain, none.
RECURSIVE ChainPayloads(_)
ChainPayloads(chain) ==
  IF chain = None THEN <<>>
  ELSE <<chain[1].payload>> \o ChainPayloads(chain[1].nextSignedRate)

\* Every element of the array is a payload.
AllPayloads(rates) == \A i \in 1..Len(rates) : rates[i] # None

\* The payloads of the array from index i on.
PayloadsFrom(rates, i) == [k \in 1..(Len(rates) - i + 1) |-> rates[i + k - 1][1]]

\* The signing of every payload of the array succeeds with the key.
AllSignable(rates, key) ==
  \A i \in 1..Len(rates) : RatePayloadSign(rates[i][1], key).ok

\* C4: a call of fromRates on a non-empty array of payloads that resolved,
\* resolved to a chain whose nodes hold, from the head along nextSignedRate,
\* the payloads of the array in the order of the array, the last node with no
\* next; while it awaits the signature of payload i, the chain made so far
\* holds the payloads after i in that order; it is rejected only when a
\* signing fails; all this whatever the other call does meanwhile.
C4_ChainInInputOrder ==
  \A c \in Calls :
    (Len(chainRates[c]) > 0 /\ AllPayloads(chainRates[c])) =>
      /\ pc[c] \in {"resolved", "encoded", "decoded"} =>
           /\ chainResult[c].ok
           /\ chainResult[c].val # None
           /\ ChainPayloads(chainResult[c].val) = PayloadsFrom(chainRates[c], 1)
      /\ pc[c] = "awaiting" =>
           ChainPayloads(prevSignedRate[c]) = PayloadsFrom(chainRates[c], loopIndex[c] + 1)
      /\ pc[c] = "rejected" => ~AllSignable(chainRates[c], chainKey[c])

\* The first call resolved to the chain of three payloads while the second
\* call, on two payloads, awaits the signature of its first payload with the
\* node of its second already made.
C4_Witness ==
  /\ pc["first"] = "resolved"
  /\ chainRates["first"] =
       <<Some(metaRatePayload), Some(extraRatePayload), Some(tritonRatePayload)>>
  /\ chainResult["first"].val[1].payload = metaRatePayload
  /\ chainResult["first"].val[1].nextSignedRate[1].payload = extraRatePayload
  /\ chainResult["first"].val[1].nextSignedRate[1].nextSignedRate[1].payload
       = tritonRatePayload
  /\ chainResult["first"].val[1].nextSignedRate[1].nextSignedRate[1].nextSignedRate = None
  /\ pc["second"] = "awaiting"
  /\ Len(chainRates["second"]) = 2
  /\ loopIndex["second"] = 1
  /\ prevSignedRate["second"] # None

\* C5: for every chain fromRates resolved to, toCell gives a cell and
\* SignedRate.fromCell of it gives a chain of as many nodes, each with the
\* signature and the payload of the node at its place, the last with no next.
C5_ChainCellRoundTrip ==
  \A c \in Calls :
    /\ pc[c] = "encoded" => chainCell[c].ok
    /\ pc[c] = "decoded" => chainDecoded[c] = Ok(chainResult[c].val[1])

\* C11: for every asset a whose currency id, if it has one, is in the signed
\* 32-bit range, Asset.fromCell(a.toCell()) succeeds and is a: the same tag
\* and the same address or currency id.
C11_AssetCellRoundTrip ==
  (phase = "fromCell" /\ (IsExtraCurrency(oneAsset) => FitsInt32(oneAsset.currencyId)))
    => (oneFromCell.ok /\ oneFromCell.val = oneAsset)

\* C12: Asset.fromID(a.ID) succeeds and is a, with the ID of a, for every
\* asset a; and two assets have the same ID exactly when they are the same.
C12_IDRoundTrip ==
  /\ phase = "fromID"
       => /\ oneFromID.ok
          /\ oneFromID.val = oneAsset
          /\ AssetID(oneFromID.val) = oneID
  /\ phase \in {"ID", "fromID"}
       => \A a \in OneAssets : (AssetID(a) = oneID) <=> (a = oneAsset)

\* A Token, whose ID holds two ':', came back from its ID.
C12_Witness ==
  /\ phase = "fromID"
  /\ oneAsset.type = JETTON
  /\ Count(oneID, LAMBDA ch : ch = ":") = 2
  /\ oneFromID = Ok(oneAsset)

\* The value an input of new Allocation denotes is negative: a negative
\* bigint, a negative number, or the decimal numeral of a negative integer.
DenotesNegative(input) ==
  CASE input.form = "bigint" -> input.big.neg
    [] input.form = "number" -> input.num[1] < 0
    [] input.form = "string" ->
         /\ IsNumeral(input.text)
         /\ Head(input.text) = "-"
         /\ \E i \in 2..Len(input.text) : input.text[i] # "0"

\* C18: every Allocation the constructor returns has a value >= 0, in
\* whichever form the value was given, and an input that denotes a negative
\* value is rejected.
C18_AllocationValueNonNegative ==
  phase = "allocation"
    => /\ oneAllocation.ok => ~oneAllocation.val.value.neg
       /\ DenotesNegative(oneAmount) => ~oneAllocation.ok

\* The allocations normalize was given.
NormAllocs == normAlloc.allocs

\* The last allocation of the input whose asset has the ID of the asset a.
LastWithKey(a) ==
  NormAllocs[CHOOSE i \in 1..Len(NormAllocs) :
               /\ AssetID(NormAllocs[i].asset) = AssetID(a)
               /\ \A j \in (i + 1)..Len(NormAllocs) : AssetID(NormAllocs[j].asset) # AssetID(a)]

HasKey(a) == \E i \in 1..Len(NormAllocs) : AssetID(NormAllocs[i].asset) = AssetID(a)

\* C13: normalize does not fail; its result has the length of target, its
\* i-th allocation has the asset target[i] and the value of the input
\* allocation with the key of target[i] (the last of them when there are
\* several), or 0 when there is none; so an input allocation whose asset is
\* not in target is nowhere in the result.
C13_NormalizeFollowsTarget ==
  phase = "normalized"
    => /\ normalized.ok
       /\ Len(normalized.val) = Len(normTarget)
       /\ \A i \in 1..Len(normTarget) :
            /\ normalized.val[i].asset = normTarget[i]
            /\ normalized.val[i].value =
                 IF HasKey(normTarget[i]) THEN LastWithKey(normTarget[i]).value
                 ELSE BigInt(0)

\* One allocation of the native asset was expanded to three targets, two of
\* them with value 0, the native asset not first.
C13_Witness ==
  /\ phase = "normalized"
  /\ ~normAlloc.isArray
  /\ NormAllocs[1].asset = AssetTon
  /\ Len(normTarget) = 3
  /\ normTarget[2] = AssetTon
  /\ normalized.ok
  /\ normalized.val[2] = NormAllocs[1]
  /\ normalized.val[1].value = BigInt(0)
  /\ normalized.val[3].asset = AssetJetton(stton)

\* The lists the two sub-trees of the received payload cell decode to.
WireAssetList == parseAssetsFromNestedCell(wireCell.refs[1])

WireValues == parseCoinsFromNestedCell(wireCell.refs[2])

\* C14: when the asset list and the coin list decoded from the two sub-trees
\* of the cell differ in length, in either direction, RatePayload.fromCell
\* throws 'Assets and values length mismatch' and returns no RatePayload.
C14_LengthMismatchRejected ==
  (/\ phase = "decoded"
   /\ wire.kind = "payload"
   /\ WireAssetList.ok
   /\ WireValues.ok
   /\ Len(WireAssetList.val) # Len(WireValues.val))
    => wireDecoded = Err("Assets and values length mismatch")

\* A cell of two assets and three coins was rejected.
C14_Witness ==
  /\ phase = "decoded"
  /\ wire.kind = "payload"
  /\ WireAssetList.ok
  /\ WireValues.ok
  /\ Len(WireAssetList.val) = 2
  /\ Len(WireValues.val) = 3
  /\ ~wireDecoded.ok

\* The number of nodes of a chain.
RECURSIVE ChainLength(_)
ChainLength(node) ==
  IF node.nextSignedRate = None THEN 1 ELSE 1 + ChainLength(node.nextSignedRate[1])

\* C20: Asset.fromCell throws 'Invalid asset prefix' on every prefix 3..15;
\* a bad asset cell anywhere in an asset sequence, a bad payload in a node
\* and a bad node at any depth of a chain make the enclosing decoder throw;
\* a sound cell decodes to all of its entries.
C20_DecodeAllOrNothing ==
  phase = "decoded"
    => /\ wire.fault = "prefix" => wireDecoded = Err("Invalid asset prefix")
       /\ wire.fault # "none" => ~wireDecoded.ok
       /\ wire.fault = "none"
            => /\ wireDecoded.ok
               /\ wire.kind = "assets" => Len(wireDecoded.val) = wire.assets
               /\ wire.kind = "payload" => Len(wireDecoded.val.rates) = wire.assets
               /\ wire.kind = "chain" => ChainLength(wireDecoded.val) = wire.depth

\* A chain of three nodes whose last node holds an asset cell of prefix 15
\* was rejected.
C20_Witness ==
  /\ phase = "decoded"
  /\ wire.kind = "chain"
  /\ wire.depth = 3
  /\ wire.node = 3
  /\ wire.fault = "prefix"
  /\ wireDecoded = Err("Invalid asset prefix")

\* C15: a call of fromRates on an empty array is rejected with 'Rates array
\* is empty'; it returned no node and called the signer not once.
C15_EmptyArrayRejected ==
  \A c \in Calls :
    (pc[c] # "idle" /\ chainRates[c] = <<>>)
      => /\ pc[c] = "rejected"
         /\ chainResult[c] = Err("Rates array is empty")
         /\ prevSignedRate[c] = None
         /\ pending[c] = NoResult
         /\ signCalls[c] = <<>>

\* A call on an empty array was rejected while the other call awaits a
\* signature.
C15_Witness ==
  /\ pc["first"] = "rejected"
  /\ chainRates["first"] = <<>>
  /\ chainResult["first"] = Err("Rates array is empty")
  /\ pc["second"] = "awaiting"

\* The payload a call awaits the signature of.
AwaitedPayload(c) == chainRates[c][loopIndex[c]][1]

\* C16: payload.sign(key) gives the signer the hash of the cell toCell()
\* returns, not the cell, and settles to what the signer returned: a
\* signature that verifies against toCell().hash() under the public key of
\* the pair, or the signer's error.
C16_SignsCellHash ==
  \A c \in Calls :
    (pc[c] = "awaiting" /\ RatePayloadToCell(AwaitedPayload(c)).ok)
      => /\ pending[c] = sign(CellHash(RatePayloadToCell(AwaitedPayload(c)).val), chainKey[c])
         /\ pending[c].ok
              => /\ signVerify(CellHash(RatePayloadToCell(AwaitedPayload(c)).val),
                               pending[c].val, PublicKey(chainKey[c]))
                 /\ pending[c].val.digest # RatePayloadToCell(AwaitedPayload(c)).val

\* A call awaits the signature of the payload of the test, made with the
\* 64-byte key.
C16_Witness ==
  /\ pc["first"] = "awaiting"
  /\ AwaitedPayload("first") = tritonRatePayload
  /\ chainKey["first"] = SecretKey
  /\ pending["first"].ok
  /\ pending["first"].val.digest = CellHash(RatePayloadToCell(tritonRatePayload).val)

\* The signatures of the nodes of a chain, from its head.
RECURSIVE ChainSignatures(_)
ChainSignatures(chain) ==
  IF chain = None THEN <<>>
  ELSE <<chain[1].signature>> \o ChainSignatures(chain[1].nextSignedRate)

\* The digest of a payload.
Digest(payload) == CellHash(RatePayloadToCell(payload).val)

\* C17: a call of fromRates on n payloads that resolved called the signer n
\* times, once for each payload, from the last to the first, with the digest
\* of that payload; and the node that holds the i-th payload holds the
\* signature the signer returned for the i-th payload.  While the call
\* awaits the signature of payload i, whose toCell() did not throw, it has
\* called the signer for the payloads from i on and no other.
C17_OneSigningPerPayload ==
  \A c \in Calls :
    (Len(chainRates[c]) > 0 /\ AllPayloads(chainRates[c])) =>
      /\ pc[c] \in {"awaiting", "resolved", "encoded", "decoded"} =>
           \A k \in 1..Len(signCalls[c]) :
             /\ signCalls[c][k].index = Len(chainRates[c]) - k + 1
             /\ signCalls[c][k].digest = Digest(chainRates[c][Len(chainRates[c]) - k + 1][1])
      /\ (pc[c] = "awaiting" /\ RatePayloadToCell(AwaitedPayload(c)).ok)
           => Len(signCalls[c]) = Len(chainRates[c]) - loopIndex[c] + 1
      /\ pc[c] \in {"resolved", "encoded", "decoded"} =>
           /\ Len(signCalls[c]) = Len(chainRates[c])
           /\ Len(ChainSignatures(chainResult[c].val)) = Len(chainRates[c])
           /\ \A i \in 1..Len(chainRates[c]) :
                /\ ChainPayloads(chainResult[c].val)[i] = chainRates[c][i][1]
                /\ ChainSignatures(chainResult[c].val)[i] =
                     sign(signCalls[c][Len(chainRates[c]) - i + 1].digest, chainKey[c]).val

\* A call on three payloads, no two the same, resolved after three calls of
\* the signer, while the other call is in flight.
C17_Witness ==
  /\ pc["first"] = "resolved"
  /\ chainRates["first"] =
       <<Some(metaRatePayload), Some(extraRatePayload), Some(tritonRatePayload)>>
  /\ Len(signCalls["first"]) = 3
  /\ ChainSignatures(chainResult["first"].val)[2].digest = Digest(extraRatePayload)
  /\ pc["second"] = "awaiting"

\* C19: on rates it can sort, the constructor returns a payload exactly when
\* the expiration is an unsigned 32-bit integer, 0 included; so the
\* expiration of every payload it returned fits the 32-bit field.
C19_ExpirationIsUint32 ==
  (phase = "built" /\ ExtraCurrencyCount(rateList) <= 1)
    => /\ ratePayload.ok <=> FitsUint32(rateExpiration)
       /\ ratePayload.ok => FitsUint32(ratePayload.val.expiration)

\* C21: fromJSON(toJSON(x)) succeeds and is x, for every Asset, Allocation,
\* RatePayload and SignedRate chain x the constructors return: the same
\* asset, value, expiration, rates in the same order, signatures and nodes.
C21_JSONRoundTrip ==
  phase = "back" => jsonBack = Ok(jsonValue.val)

\* What the loop of fromRates gives from index i down with the chain prev
\* when nothing else runs: the chain, or the error of the first signing
\* that fails.
RECURSIVE AloneFrom(_, _, _, _)
AloneFrom(rates, key, i, prev) ==
  IF nextPayload(rates, i) = 0 THEN Ok(prev)
  ELSE IF ~RatePayloadSign(rates[nextPayload(rates, i)][1], key).ok
       THEN Err(RatePayloadSign(rates[nextPayload(rates, i)][1], key).err)
       ELSE AloneFrom(rates, key, nextPayload(rates, i) - 1,
                      Some(SignedRate(RatePayloadSign(rates[nextPayload(rates, i)][1], key).val,
                                      rates[nextPayload(rates, i)][1], prev)))

\* What fromRates(rates, key) settles to when it runs alone.
fromRatesAlone(rates, key) ==
  IF Len(rates) = 0 THEN Err("Rates array is empty")
  ELSE AloneFrom(rates, key, Len(rates), None)

\* C22: with two calls of fromRates in flight, their steps interleaved in any
\* order, each call settles to what it settles to when run alone; and while
\* a call awaits a signature, the chain it has made so far and the
\* signature it awaits are those of the run alone.
C22_CallsDoNotInterfere ==
  \A c \in Calls :
    /\ pc[c] \in {"resolved", "rejected", "encoded", "decoded"}
         => chainResult[c] = fromRatesAlone(chainRates[c], chainKey[c])
    /\ pc[c] = "awaiting"
         => /\ pending[c] = RatePayloadSign(AwaitedPayload(c), chainKey[c])
            /\ AloneFrom(chainRates[c], chainKey[c], loopIndex[c], prevSignedRate[c])
                 = fromRatesAlone(chainRates[c], chainKey[c])

\* Both calls are in flight, on different arrays, each with a node made and
\* awaiting the signature of the payload before it.
C22_Witness ==
  /\ pc["first"] = "awaiting"
  /\ pc["second"] = "awaiting"
  /\ chainRates["first"] # chainRates["second"]
  /\ prevSignedRate["first"] # None
  /\ prevSignedRate["second"] # None
  /\ prevSignedRate["first"] # prevSignedRate["second"]

\* The fields of a list of amounts: for each a 4-bit byte count, and its
\* bytes when it has any.
RECURSIVE AmountFields(_)
AmountFields(items) ==
  IF items = <<>> THEN <<>>
  ELSE (IF Len(Head(items).mag) = 0 THEN <<Field("n", 4, 0)>>
        ELSE <<Field("n", 4, Len(Head(items).mag)),
               Field("bytes", 8 * Len(Head(items).mag), Head(items).mag)>>)
       \o AmountFields(Tail(items))

\* The cell holds the first 7 of the amounts and, when there are more, one
\* reference to a cell that holds the rest in the same way.
RECURSIVE CoinLayout(_, _)
CoinLayout(cell, items) ==
  IF Len(items) <= MAX_COINS_PER_CELL
  THEN cell.bits = AmountFields(items) /\ cell.refs = <<>>
  ELSE /\ cell.bits = AmountFields(SubSeq(items, 1, MAX_COINS_PER_CELL))
       /\ Len(cell.refs) = 1
       /\ CoinLayout(cell.refs[1], SubSeq(items, MAX_COINS_PER_CELL + 1, Len(items)))

\* The cell holds the references of the first 3 of the assets and, when
\* there are more, a fourth reference to a cell that holds the rest.
RECURSIVE AssetLayout(_, _)
AssetLayout(cell, items) ==
  IF Len(items) <= MAX_ASSETS_PER_CELL
  THEN /\ cell.bits = <<>>
       /\ cell.refs = [i \in 1..Len(items) |-> AssetToCell(items[i]).val]
  ELSE /\ cell.bits = <<>>
       /\ Len(cell.refs) = MAX_ASSETS_PER_CELL + 1
       /\ SubSeq(cell.refs, 1, MAX_ASSETS_PER_CELL)
            = [i \in 1..MAX_ASSETS_PER_CELL |-> AssetToCell(items[i]).val]
       /\ AssetLayout(cell.refs[MAX_ASSETS_PER_CELL + 1],
                      SubSeq(items, MAX_ASSETS_PER_CELL + 1, Len(items)))

\* The cells of a chain of amount cells, and of a chain of asset cells.
RECURSIVE CoinCells(_)
CoinCells(cell) == IF cell.refs = <<>> THEN 1 ELSE 1 + CoinCells(cell.refs[1])

RECURSIVE AssetCells(_)
AssetCells(cell) ==
  IF Len(cell.refs) <= MAX_ASSETS_PER_CELL THEN 1
  ELSE 1 + AssetCells(cell.refs[MAX_ASSETS_PER_CELL + 1])

\* max(1, ceil(n / perCell))
CellsFor(n, perCell) == IF n = 0 THEN 1 ELSE (n + perCell - 1) \div perCell

PayloadAssets(payload) == [i \in 1..Len(payload.rates) |-> payload.rates[i].asset]

PayloadValues(payload) == [i \in 1..Len(payload.rates) |-> payload.rates[i].value]

\* C23: a list of n amounts (7 to a cell) or of n assets (3 to a cell) is
\* encoded as a chain of max(1, ceil(n / C)) cells: the k-th cell holds the
\* items (k-1)*C+1 .. min(k*C, n) in order; every cell but the last holds C
\* items and one overflow reference, the last holds the rest and no overflow
\* reference. This holds of the lists encoded alone and of the two lists of
\* a payload.
C23_ChainLayout ==
  (phase = "built" /\ madeCell.ok) =>
    /\ made.kind = "coins" =>
         /\ CoinCells(madeCell.val) = CellsFor(made.n, MAX_COINS_PER_CELL)
         /\ CoinLayout(madeCell.val, madeValue.val)
    /\ made.kind = "assets" =>
         /\ AssetCells(madeCell.val) = CellsFor(made.n, MAX_ASSETS_PER_CELL)
         /\ AssetLayout(madeCell.val, madeValue.val)
    /\ made.kind = "payload" =>
         /\ AssetCells(madeCell.val.refs[1]) = CellsFor(made.n, MAX_ASSETS_PER_CELL)
         /\ AssetLayout(madeCell.val.refs[1], PayloadAssets(madeValue.val))
         /\ CoinCells(madeCell.val.refs[2]) = CellsFor(made.n, MAX_COINS_PER_CELL)
         /\ CoinLayout(madeCell.val.refs[2], PayloadValues(madeValue.val))

\* Four assets are encoded: a first cell of three and an overflow reference
\* to a second cell of one.
C23_Witness ==
  /\ phase = "built"
  /\ made.kind = "assets"
  /\ made.n = MAX_ASSETS_PER_CELL + 1
  /\ madeCell.ok
  /\ Len(madeCell.val.refs) = MAX_ASSETS_PER_CELL + 1
  /\ Len(madeCell.val.refs[MAX_ASSETS_PER_CELL + 1].refs) = 1

\* Every cell of the tree is within the capacity of a cell.
RECURSIVE WithinCapacity(_)
WithinCapacity(cell) ==
  /\ BitLen(cell.bits) <= CELL_MAX_BITS
  /\ Len(cell.refs) <= CELL_MAX_REFS
  /\ \A i \in 1..Len(cell.refs) : WithinCapacity(cell.refs[i])

\* An amount cell: at most 7 amounts of at most 124 bits, at most 1 reference.
RECURSIVE IsAmountCell(_)
IsAmountCell(cell) ==
  /\ Count(cell.bits, LAMBDA f : f.kind = "n") <= MAX_COINS_PER_CELL
  /\ \A i \in 1..Len(cell.bits) : cell.bits[i].kind = "bytes" => cell.bits[i].w <= 120
  /\ BitLen(cell.bits) <= MAX_COINS_PER_CELL * 124
  /\ Len(cell.refs) <= 1
  /\ \A i \in 1..Len(cell.refs) : IsAmountCell(cell.refs[i])

\* An asset-list cell: no bits, at most 3 references to asset cells and 1
\* overflow reference.
RECURSIVE IsAssetListCell(_)
IsAssetListCell(cell) ==
  /\ BitLen(cell.bits) = 0
  /\ Len(cell.refs) <= MAX_ASSETS_PER_CELL + 1
  /\ \A i \in 1..Min(Len(cell.refs), MAX_ASSETS_PER_CELL) : AssetFromCell(cell.refs[i]).ok
  /\ Len(cell.refs) = MAX_ASSETS_PER_CELL + 1
       => IsAssetListCell(cell.refs[MAX_ASSETS_PER_CELL + 1])

\* A payload root: 32 bits, the asset list and the amounts.
IsPayloadRoot(cell) ==
  /\ BitLen(cell.bits) = 32
  /\ Len(cell.refs) = 2
  /\ IsAssetListCell(cell.refs[1])
  /\ IsAmountCell(cell.refs[2])

\* A chain node: 512 signature bits and the flag, the payload, and the next
\* node when there is one.
RECURSIVE IsChainNode(_)
IsChainNode(cell) ==
  /\ BitLen(cell.bits) = 8 * SIGNATURE_BYTES + 1
  /\ Len(cell.refs) \in {1, 2}
  /\ IsPayloadRoot(cell.refs[1])
  /\ Len(cell.refs) = 2 => IsChainNode(cell.refs[2])

CapacityErrors == {"BitBuilder overflow", "Too many references"}

\* C24: no encoder of the repository fails for want of room in a cell, and
\* every cell it builds has at most 1023 bits and 4 references: an amount
\* cell holds at most 7 amounts of at most 124 bits and at most 1 reference;
\* an asset-list cell holds no bits, at most 3 asset references and 1
\* overflow reference; a payload root holds 32 bits and 2 references; a chain
\* node holds 512 signature bits, 1 flag bit and at most 2 references.
C24_CellsWithinCapacity ==
  phase = "built" =>
    /\ ~madeCell.ok => madeCell.err \notin CapacityErrors
    /\ madeCell.ok =>
         /\ WithinCapacity(madeCell.val)
         /\ made.kind = "coins" => IsAmountCell(madeCell.val)
         /\ made.kind = "assets" => IsAssetListCell(madeCell.val)
         /\ made.kind = "asset" =>
              BitLen(madeCell.val.bits) <= 4 + ADDRESS_BITS /\ madeCell.val.refs = <<>>
         /\ made.kind = "payload" => IsPayloadRoot(madeCell.val)
         /\ made.kind = "chain" => IsChainNode(madeCell.val)

\* More than seven amounts of 2^120 - 1 are encoded: the first cell holds
\* seven of them, 868 bits, and one reference.
C24_Witness ==
  /\ phase = "built"
  /\ made.kind = "coins"
  /\ made.n > MAX_COINS_PER_CELL
  /\ madeCell.ok
  /\ BitLen(madeCell.val.bits) = MAX_COINS_PER_CELL * 124
  /\ Len(madeCell.val.refs) = 1

\* C26: toCell() succeeds on every RatePayload the constructor returns.
C26_AcceptedPayloadEncodes ==
  (phase = "built" /\ made.kind = "payload") => madeCell.ok

\* C27: in every step of a call of fromRates, at most one signing call is
\* started, and it is started only when the call before it has completed
\* and the node of its payload has been made with that signature; the calls
\* go down the array; a node made is linked to the chain made before it,
\* which is never changed; and the signer has been called at most once more
\* than there are nodes.
C27_SigningOneAtATime ==
  [][\A c \in Calls :
       /\ signCalls'[c] # signCalls[c] =>
            /\ Len(signCalls'[c]) = Len(signCalls[c]) + 1
            /\ SubSeq(signCalls'[c], 1, Len(signCalls[c])) = signCalls[c]
            /\ signCalls[c] # <<>> =>
                 /\ pending[c].ok
                 /\ signCalls'[c][Len(signCalls'[c])].index
                      < signCalls[c][Len(signCalls[c])].index
                 /\ prevSignedRate'[c] # None
                 /\ prevSignedRate'[c][1].payload = chainRates[c][loopIndex[c]][1]
                 /\ prevSignedRate'[c][1].signature = pending[c].val
       /\ prevSignedRate'[c] # prevSignedRate[c] =>
            /\ prevSignedRate'[c] # None
            /\ prevSignedRate'[c][1].nextSignedRate = prevSignedRate[c]
       /\ Len(signCalls'[c]) - Len(ChainSignatures(prevSignedRate'[c])) \in {0, 1}
  ]_vars

\* A call awaits its second signing with the node of the last payload made,
\* and the other call awaits a signing too.
C27_Witness ==
  /\ pc["first"] = "awaiting"
  /\ Len(chainRates["first"]) = 3
  /\ Len(signCalls["first"]) = 2
  /\ Len(ChainSignatures(prevSignedRate["first"])) = 1
  /\ pc["second"] = "awaiting"

\* The index of the first payload, from index i down, whose signing fails,
\* or 0 when all succeed.
RECURSIVE FirstFailure(_, _, _)
FirstFailure(rates, key, i) ==
  IF nextPayload(rates, i) = 0 THEN 0
  ELSE IF ~RatePayloadSign(rates[nextPayload(rates, i)][1], key).ok
       THEN nextPayload(rates, i)
       ELSE FirstFailure(rates, key, nextPayload(rates, i) - 1)

FailedIndex(c) == FirstFailure(chainRates[c], chainKey[c], Len(chainRates[c]))

\* C28: a call of fromRates on an array with a payload Pi whose signing
\* fails never resolves: it awaits a signing of Pi or of a payload after it,
\* or it has been rejected with the error of the signing of Pi. It returns
\* no chain, the nodes made for the payloads after Pi included, calls the
\* signer for no payload before Pi, and for no payload twice.
C28_SigningFailureRejects ==
  \A c \in Calls :
    (pc[c] # "idle" /\ FailedIndex(c) > 0) =>
      /\ pc[c] \in {"awaiting", "rejected"}
      /\ loopIndex[c] >= FailedIndex(c)
      /\ ~chainResult[c].ok
      /\ chainCell[c] = NoResult
      /\ \A k \in 1..Len(signCalls[c]) :
           /\ signCalls[c][k].index >= FailedIndex(c)
           /\ k > 1 => signCalls[c][k].index < signCalls[c][k - 1].index
      /\ pc[c] = "rejected" =>
           /\ loopIndex[c] = FailedIndex(c)
           /\ chainResult[c] =
                Err(RatePayloadSign(chainRates[c][FailedIndex(c)][1], chainKey[c]).err)

\* A call on three payloads was rejected at the second: the third was
\* signed and its node made, the first was never signed.
C28_Witness ==
  /\ pc["first"] = "rejected"
  /\ Len(chainRates["first"]) = 3
  /\ loopIndex["first"] = 2
  /\ prevSignedRate["first"] # None
  /\ Len(signCalls["first"]) = 1
  /\ ~chainResult["first"].ok

\* The positions of the input allocations whose asset has the key of a.
KeyPositions(a) == {j \in 1..Len(NormAllocs) : AssetID(NormAllocs[j].asset) = AssetID(a)}

\* The greatest element of a set of numbers that is not empty.
Greatest(S) == CHOOSE m \in S : \A k \in S : k <= m

\* C30: when several input allocations have the key of a target asset, the
\* allocation returned for it is the last of them in input order, as it
\* stands (an earlier one is dropped, the values are not added up); the
\* result has one allocation per position of target, and two positions of
\* target with the same asset get the same allocation.
C30_LastDuplicateWins ==
  phase = "normalized" =>
    /\ Len(normalized.val) = Len(normTarget)
    /\ \A i \in 1..Len(normTarget) :
         /\ Cardinality(KeyPositions(normTarget[i])) >= 1
              => normalized.val[i] = NormAllocs[Greatest(KeyPositions(normTarget[i]))]
         /\ \A k \in 1..Len(normTarget) :
              normTarget[k] = normTarget[i] => normalized.val[k] = normalized.val[i]

\* Two allocations of one jetton, of 100 and then of 7, and a third of
\* another asset: the target names the jetton twice and gets the 7 twice.
C30_Witness ==
  /\ phase = "normalized"
  /\ normAlloc.isArray
  /\ Len(NormAllocs) = 3
  /\ NormAllocs[1] = Allocation(AssetJetton(tston), BigInt(100)).val
  /\ NormAllocs[2] = Allocation(AssetJetton(tston), BigInt(7)).val
  /\ normTarget = <<AssetJetton(tston), AssetTon, AssetJetton(tston)>>
  /\ normalized.val[1].value = BigInt(7)
  /\ normalized.val[3].value = BigInt(7)

\* The items of the cells k.. of a received chain, in chain order.
RECURSIVE WalkExpected(_, _)
WalkExpected(w, k) ==
  IF k > Len(w.counts) THEN <<>>
  ELSE (IF w.kind = "coins" THEN WalkCoinItems(w.counts, k) ELSE WalkAssetItems(w.counts, k))
       \o WalkExpected(w, k + 1)

\* No cell of the chain holds more items than a cell of the format takes.
WalkInFormat ==
  \A k \in 1..Len(walk.counts) :
    walk.counts[k] <= (IF walk.kind = "coins" THEN MAX_COINS_PER_CELL
                       ELSE MAX_ASSETS_PER_CELL)

\* C25: on a chain of cells of at most C items each, every cell but the
\* last with an overflow reference, parseCoinsFromNestedCell and
\* parseAssetsFromNestedCell return the items of all the cells in chain
\* order, the cells behind a cell of fewer than C items, or of none,
\* included.
C25_DecodersFollowEveryReference ==
  (walk.kind \in {"coins", "assets"} /\ WalkInFormat /\ walkPc \in {"done", "failed"})
    => walkResult = Ok(WalkExpected(walk, 1))

RECURSIVE SumOf(_)
SumOf(counts) == IF counts = <<>> THEN 0 ELSE Head(counts) + SumOf(Tail(counts))

\* The loops and the recursions are within their bounds: a parser has begun
\* at most items + depth iterations of its while loop and of its for loop
\* and followed at most as many references as the chain has cells (the
\* last may be to an asset cell, one level below the chain); fromCell has
\* made at most one call for each node; a store has made at most
\* max(1, ceil(n / C)) calls, and that many when it returns.
WalkWithinBounds ==
  CASE walk.kind \in {"coins", "assets"} ->
         /\ walkIterations <= SumOf(walk.counts) + Len(walk.counts)
         /\ Len(walkItems) <= SumOf(walk.counts) + Len(walk.counts)
         /\ walkMoves <= Len(walk.counts)
    [] walk.kind = "chain" -> walkMoves + 1 <= Len(walk.counts)
    [] walk.kind \in {"storeCoins", "storeAssets"} ->
         /\ walkMoves <= CellsFor(walk.counts[1], PerCell)
         /\ walkPc = "done" => walkMoves = CellsFor(walk.counts[1], PerCell)
    [] OTHER -> TRUE

\* C29: parseCoinsFromNestedCell, parseAssetsFromNestedCell and
\* SignedRate.fromCell, on a cell tree produced by this library or not, and
\* storeCoinsNested and storeSortedAssetsNested, on a list of any length,
\* stay within the bounds above and come to an end: each returns or throws.
C29_LoopsTerminate ==
  /\ []WalkWithinBounds
  /\ <>(walkPc \in {"done", "failed"})

\* A parser has returned the items of a chain of three cells which it read
\* in three iterations of its while loop, following two references.
C29_Witness ==
  /\ walk.kind = "coins"
  /\ Len(walk.counts) = 3
  /\ walkPc = "done"
  /\ walkIterations = 3
  /\ walkMoves = 2
  /\ Len(walkItems) = SumOf(walk.counts)
  /\ Len(walkItems) > MAX_COINS_PER_CELL

====
